---- MODULE Spec2Model ----
(***************************************************************************)
(* Model of the NINJA-TRADER "Render brain": the poll/fills handlers of    *)
(* routes.py, the runtime manager of runtime_manager.py, the in-memory     *)
(* StateStore of state.py and the filter chain of strategy_logic.py.       *)
(*                                                                         *)
(* Numbers.  Prices, stops and profit are integers in hundredths of a      *)
(* point (1000.00 points = 100000), dollars are integers in cents, the     *)
(* PAMM score is an integer in tenths of a score point, relative volume    *)
(* is in hundredths, time is in whole seconds since the process started.   *)
(* A frame is represented by its bar count and the last row of the         *)
(* prepared frame (the only row the decision code reads).                  *)
(***************************************************************************)
EXTENDS Integers, Sequences, FiniteSets, TLC

VARIABLES
    state,      \* STORE._state : BotState
    frames,     \* candles.load_frames(symbol), per symbol
    now,        \* datetime.now(timezone.utc), seconds
    config,     \* environment-derived settings of config.py that runs vary
    resp,       \* response of the request handled last
    ninputs,    \* number of inputs (fills, candle posts, clock advances) so far
    inflight    \* requests being handled by worker threads, and the window
                \* of requests that overlapped in time

vars == <<state, frames, now, config, resp, ninputs, inflight>>

(***************************************************************************)
(* Bounds of the model.                                                    *)
(***************************************************************************)
MaxInputs == 3

(***************************************************************************)
(* Units and small helpers.                                                *)
(***************************************************************************)
Pts(p) == p * 100
Abs(x) == IF x < 0 THEN 0 - x ELSE x
Max(a, b) == IF a >= b THEN a ELSE b
Min(a, b) == IF a <= b THEN a ELSE b
NoTime == 0 - 1
None == "None"

Get(d, k, default) == IF k \in DOMAIN d THEN d[k] ELSE default
Put(d, k, v) == [x \in (DOMAIN d) \cup {k} |-> IF x = k THEN v ELSE d[x]]
EmptyDict == [x \in {} |-> 0]

MachineIds == {"m1"}
Symbols == {"MBT"}
Timeframes == {"df1", "df5", "df15", "df30"}

(***************************************************************************)
(* config.py                                                               *)
(***************************************************************************)
PAMM_MIN == 600
PAMM_MAX == 1300
REVERSAL_PAMM_THRESHOLD == 600
MIN_STOP_MOVE_PTS == 25
MAX_STOP_TIGHTEN_PER_POLL_PTS == 200000
MAX_DAILY_LOSS_USD == 750
POINT_VALUE_USD == 5
USE_VWAP == FALSE
USE_REGIME_FILTER == FALSE
USE_CANDLE_PATTERNS == FALSE
USE_MULTI_TF_MACD == FALSE
RUNTIME_MANAGER_ENABLED == TRUE
ENABLE_AUTO_KILL_SWITCH == TRUE
KILL_SWITCH == FALSE
BOT_MODE == "PAPER"
SecondsPerDay == 86400
\* the deployment setting modelled: COOLDOWN_SECONDS=60 (its default, 0, turns the
\* cooldown check off)
ConfigInputs ==
    [COOLDOWN_SECONDS : {60}, KILL_SWITCH : {KILL_SWITCH},
     ENABLE_AUTO_KILL_SWITCH : {ENABLE_AUTO_KILL_SWITCH}]

(***************************************************************************)
(* state.py                                                                *)
(***************************************************************************)
PositionState == [
    side |-> None, entry_price |-> 0, stop_price |-> 0, qty |-> 0,
    open |-> FALSE, entry_time_utc |-> NoTime, initial_stop |-> 0,
    last_stop_update_utc |-> NoTime, last_sl_time_utc |-> NoTime,
    exit_price |-> 0, exit_time_utc |-> NoTime ]

Today(t) == t \div SecondsPerDay

BotState == [
    mode |-> "PAPER", kill_switch |-> FALSE,
    last_signal |-> "FLAT", last_reason |-> "", last_stop_price |-> 0,
    positions |-> EmptyDict,
    daily_realized_pnl_by_machine |-> EmptyDict,
    current_day_utc |-> 0,
    kill_switch_triggered_by_machine |-> EmptyDict,
    consecutive_losses_by_machine |-> EmptyDict ]

set_mode(st, mode) == [st EXCEPT !.mode = mode]

set_kill(st, enabled) == [st EXCEPT !.kill_switch = enabled]

set_decision(st, signal, stop_price, reason) ==
    [st EXCEPT !.last_signal = signal, !.last_stop_price = stop_price,
               !.last_reason = reason]

\* _day_rollover_if_needed leaving the consecutive-loss counters alone
_day_rollover_keeps_losses(st, t) ==
    IF Today(t) # st.current_day_utc
    THEN [st EXCEPT !.current_day_utc = Today(t),
                    !.daily_realized_pnl_by_machine = EmptyDict,
                    !.kill_switch_triggered_by_machine = EmptyDict]
    ELSE st

_day_rollover_if_needed(st, t) ==
    IF Today(t) # st.current_day_utc
    THEN [st EXCEPT !.current_day_utc = Today(t),
                    !.daily_realized_pnl_by_machine = EmptyDict,
                    !.kill_switch_triggered_by_machine = EmptyDict,
                    !.consecutive_losses_by_machine = EmptyDict]
    ELSE st

Key(machine_id, symbol) == machine_id \o ":" \o symbol

\* get_position returns the stored object and, as a side effect, the store
\* after the rollover and the lazy creation: GetPositionStore is that store.
GetPositionStore(st, machine_id, symbol, t) ==
    LET s1 == _day_rollover_if_needed(st, t)
        key == Key(machine_id, symbol)
    IN  IF key \notin DOMAIN s1.positions
        THEN [s1 EXCEPT !.positions = Put(s1.positions, key, PositionState)]
        ELSE s1

get_position(st, machine_id, symbol, t) ==
    GetPositionStore(st, machine_id, symbol, t).positions[Key(machine_id, symbol)]

set_position(st, machine_id, symbol, pos, t) ==
    LET s1 == _day_rollover_if_needed(st, t)
    IN  [s1 EXCEPT !.positions = Put(s1.positions, Key(machine_id, symbol), pos)]

add_realized_pnl(st, machine_id, pnl_usd, t) ==
    LET s1 == _day_rollover_if_needed(st, t)
    IN  [s1 EXCEPT !.daily_realized_pnl_by_machine =
            Put(@, machine_id, Get(@, machine_id, 0) + pnl_usd)]

get_realized_pnl(st, machine_id, t) ==
    Get(_day_rollover_if_needed(st, t).daily_realized_pnl_by_machine, machine_id, 0)

\* set_kill_triggered storing nothing
set_kill_triggered_noop(st, machine_id, enabled, t) == _day_rollover_if_needed(st, t)

set_kill_triggered(st, machine_id, enabled, t) ==
    LET s1 == _day_rollover_if_needed(st, t)
    IN  [s1 EXCEPT !.kill_switch_triggered_by_machine = Put(@, machine_id, enabled)]

\* is_kill_triggered reading no flag
is_kill_triggered_ignored(st, machine_id, t) == FALSE

is_kill_triggered(st, machine_id, t) ==
    Get(_day_rollover_if_needed(st, t).kill_switch_triggered_by_machine,
        machine_id, FALSE)

increment_consecutive_losses(st, machine_id, t) ==
    LET s1 == _day_rollover_if_needed(st, t)
    IN  [s1 EXCEPT !.consecutive_losses_by_machine =
            Put(@, machine_id, Get(@, machine_id, 0) + 1)]

reset_consecutive_losses(st, machine_id, t) ==
    LET s1 == _day_rollover_if_needed(st, t)
    IN  [s1 EXCEPT !.consecutive_losses_by_machine = Put(@, machine_id, 0)]

get_consecutive_losses(st, machine_id, t) ==
    Get(_day_rollover_if_needed(st, t).consecutive_losses_by_machine, machine_id, 0)

(***************************************************************************)
(* strategy_logic.py.  A prepared frame f is [len, row, pattern]: its bar   *)
(* count, its last row (ema9, ema21, ema50, rsi14, macdh, ADX, relvol,     *)
(* vwap, close) and the candle pattern its last two bars form.             *)
(***************************************************************************)
\* Strategy.__init__ defaults, which _make_strategy does not override
adx_min == 22
rel_vol_min == 120
rel_vol_max == 200
rsi_long_min == 52
rsi_short_max == 48
MinBars == 50
MinBarsPamm == 30

\* the Strategy object runtime_manager._make_strategy builds from config.py
_make_strategy ==
    [pamm_min |-> PAMM_MIN, pamm_max |-> PAMM_MAX, use_vwap |-> USE_VWAP,
     use_regime_filter |-> USE_REGIME_FILTER,
     use_candle_patterns |-> USE_CANDLE_PATTERNS,
     use_multi_tf_macd |-> USE_MULTI_TF_MACD]

BullishPatterns == {"bullish_rejection", "bullish_engulfing", "hammer"}
BearishPatterns == {"bearish_rejection", "bearish_engulfing", "inverted_hammer"}

\* AgreementPoints counting at most two agreeing timeframes
AgreementPointsMax20(agreements) == Min(agreements, 2) * 100

\* 10 points per agreeing timeframe
AgreementPoints(agreements) == agreements * 100

_score_pamm(row5, row1, row15, row30) ==
    LET dir(r) == IF r.ema9 >= r.ema21 THEN 1 ELSE 0 - 1
        dir5 == dir(row5)
        agree(r) == IF dir(r) = dir5 THEN 1 ELSE 0
        agreements == agree(row1) + agree(row15) + agree(row30)
        rsi_pts(r) == Max(0, Min(100, Abs(r.rsi14 - 50) * 5))
        macd_pts(r) == IF Abs(r.macdh) > 0 THEN 100 ELSE 0
        mom(r) == rsi_pts(r) + macd_pts(r)
        adx_pts == Max(0, Min(100, row5.ADX * 4))
    IN  [score |-> AgreementPoints(agreements) + mom(row1) + mom(row5) + mom(row15)
                    + mom(row30) + adx_pts,
         dir5 |-> dir5]

compute_pamm_now(fr) ==
    IF \E k \in Timeframes : fr[k].len < MinBarsPamm
    THEN 0
    ELSE _score_pamm(fr["df5"].row, fr["df1"].row, fr["df15"].row, fr["df30"].row).score

\* _check_regime_filter taking the trend from EMA9 against EMA21
_check_regime_filter_ema21(strat, f5, f30) ==
    IF ~strat.use_regime_filter THEN [pass |-> TRUE, dir |-> 0, reason |-> "Regime filter disabled"]
    ELSE IF f5.len < MinBars \/ f30.len < MinBars
    THEN [pass |-> FALSE, dir |-> 0, reason |-> "Insufficient data for regime filter"]
    ELSE LET dir5 == IF f5.row.ema9 >= f5.row.ema21 THEN 1 ELSE 0 - 1
             dir30 == IF f30.row.ema9 >= f30.row.ema21 THEN 1 ELSE 0 - 1
         IN  IF dir5 = dir30
             THEN [pass |-> TRUE, dir |-> dir5, reason |-> "aligned"]
             ELSE [pass |-> FALSE, dir |-> 0, reason |-> "Mixed regime (5m and 30m disagree)"]

_check_regime_filter(strat, f5, f30) ==
    IF ~strat.use_regime_filter THEN [pass |-> TRUE, dir |-> 0, reason |-> "Regime filter disabled"]
    ELSE IF f5.len < MinBars \/ f30.len < MinBars
    THEN [pass |-> FALSE, dir |-> 0, reason |-> "Insufficient data for regime filter"]
    ELSE LET dir5 == IF f5.row.ema9 > f5.row.ema50 THEN 1 ELSE 0 - 1
             dir30 == IF f30.row.ema9 > f30.row.ema50 THEN 1 ELSE 0 - 1
         IN  IF dir5 = dir30
             THEN [pass |-> TRUE, dir |-> dir5, reason |-> "aligned"]
             ELSE [pass |-> FALSE, dir |-> 0, reason |-> "Mixed regime (5m and 30m disagree)"]

_check_volume_confirmation(row5) ==
    IF row5.relvol < rel_vol_min THEN [pass |-> FALSE, reason |-> "Low volume"]
    ELSE IF row5.relvol > rel_vol_max THEN [pass |-> FALSE, reason |-> "Volume spike"]
    ELSE [pass |-> TRUE, reason |-> "Volume OK"]

\* _check_adx_gate letting every trend strength through
_check_adx_gate_off(row5) == [pass |-> TRUE, reason |-> "Strong trend"]

_check_adx_gate(row5) ==
    IF row5.ADX < adx_min THEN [pass |-> FALSE, reason |-> "Weak trend"]
    ELSE [pass |-> TRUE, reason |-> "Strong trend"]

_check_multi_tf_macd(strat, f5, f15, f30, direction) ==
    IF ~strat.use_multi_tf_macd THEN [pass |-> TRUE, reason |-> "MACD filter disabled"]
    ELSE IF direction = 1 /\ f5.row.macdh <= 0
    THEN [pass |-> FALSE, reason |-> "5m MACD bearish (blocking long)"]
    ELSE IF direction = 0 - 1 /\ f5.row.macdh >= 0
    THEN [pass |-> FALSE, reason |-> "5m MACD bullish (blocking short)"]
    ELSE IF direction = 1 /\ f15.row.macdh < 0 - 50
    THEN [pass |-> FALSE, reason |-> "15m MACD strongly bearish (blocking long)"]
    ELSE IF direction = 0 - 1 /\ f15.row.macdh > 50
    THEN [pass |-> FALSE, reason |-> "15m MACD strongly bullish (blocking short)"]
    ELSE IF (direction = 1 /\ f30.row.macdh > 0) \/ (direction = 0 - 1 /\ f30.row.macdh < 0)
    THEN [pass |-> TRUE, reason |-> "MACD 5m+30m aligned"]
    ELSE [pass |-> TRUE, reason |-> "MACD acceptable (5m+15m OK)"]

_check_candle_pattern(strat, f5, direction) ==
    IF ~strat.use_candle_patterns THEN [pass |-> TRUE, reason |-> "Candle filter disabled"]
    ELSE IF f5.len < 2 THEN [pass |-> FALSE, reason |-> "Insufficient candles"]
    ELSE IF direction = 1
    THEN IF f5.pattern \in BullishPatterns
         THEN [pass |-> TRUE, reason |-> f5.pattern]
         ELSE [pass |-> FALSE, reason |-> "No bullish pattern"]
    ELSE IF f5.pattern \in BearishPatterns
         THEN [pass |-> TRUE, reason |-> f5.pattern]
         ELSE [pass |-> FALSE, reason |-> "No bearish pattern"]

\* DirectionConflict never reported
DirectionConflictIgnored(strat, regime_dir, dir5) == FALSE

\* with the regime filter on, the PAMM direction must match the regime's
DirectionConflict(strat, regime_dir, dir5) ==
    strat.use_regime_filter /\ regime_dir # 0 /\ dir5 # regime_dir

\* a flat Signal with the reason left at the dataclass default
FlatNoReason(reason) == [side |-> "flat", reason |-> ""]

\* Strategy.decide: Signal(side, reason)
Flat(reason) == [side |-> "flat", reason |-> reason]

StrategyDecide(strat, fr) ==
    LET f1 == fr["df1"]
        f5 == fr["df5"]
        f15 == fr["df15"]
        f30 == fr["df30"]
        row5 == f5.row
        regime == _check_regime_filter(strat, f5, f30)
        pamm == _score_pamm(row5, f1.row, f15.row, f30.row)
        dir5 == pamm.dir5
        use_long == (dir5 = 1)
        adxg == _check_adx_gate(row5)
        vol == _check_volume_confirmation(row5)
        macd == _check_multi_tf_macd(strat, f5, f15, f30, dir5)
        pat == _check_candle_pattern(strat, f5, dir5)
    IN  IF \E k \in Timeframes : fr[k].len < MinBars THEN Flat("Insufficient data")
        ELSE IF ~regime.pass THEN Flat(regime.reason)
        ELSE IF DirectionConflict(strat, regime.dir, dir5)
        THEN Flat("PAMM direction conflicts with regime")
        ELSE IF pamm.score < strat.pamm_min \/ pamm.score > strat.pamm_max
        THEN Flat("PAMM outside range")
        ELSE IF ~adxg.pass THEN Flat(adxg.reason)
        ELSE IF ~vol.pass THEN Flat(vol.reason)
        ELSE IF use_long /\ row5.rsi14 < rsi_long_min THEN Flat("RSI too low for long")
        ELSE IF ~use_long /\ row5.rsi14 > rsi_short_max THEN Flat("RSI too high for short")
        ELSE IF strat.use_vwap /\ use_long /\ ~(row5.close >= row5.vwap /\ row5.ema9 >= row5.vwap)
        THEN Flat("Price/EMA9 below VWAP (blocking long)")
        ELSE IF strat.use_vwap /\ ~use_long /\ ~(row5.close <= row5.vwap /\ row5.ema9 <= row5.vwap)
        THEN Flat("Price/EMA9 above VWAP (blocking short)")
        ELSE IF ~macd.pass THEN Flat(macd.reason)
        ELSE IF ~pat.pass THEN Flat(pat.reason)
        ELSE [side |-> IF dir5 = 1 THEN "buy" ELSE "sell", reason |-> "ENTRY"]

(***************************************************************************)
(* candles.py: the frames a symbol's stored candles load as.  The inputs   *)
(* are built from a trend profile and the last 5m close.                   *)
(***************************************************************************)
Row(d, rsi, macdh, adxv, relvol, close) ==
    [ema9 |-> close + d, ema21 |-> close, ema50 |-> close - d, rsi14 |-> rsi,
     macdh |-> macdh, ADX |-> adxv, relvol |-> relvol, vwap |-> close,
     close |-> close]

Frame(n, row) == [len |-> n, row |-> row, pattern |-> "none"]

\* all four timeframes share one row shape; d5 is the 5m direction and
\* dOther the direction of the 1m, 15m and 30m frames
MkFrames(n, d5, dOther, rsi, macdh, adxv, relvol, close) ==
    [k \in Timeframes |->
        Frame(n, Row(IF k = "df5" THEN d5 ELSE dOther, rsi, macdh, adxv, relvol, close))]

UpCloses == {Pts(999), 99910, Pts(1000), Pts(1160), Pts(1260), Pts(1400)}
DownCloses == {Pts(840), Pts(1000)}

FrameInputs ==
    {MkFrames(10, 1, 1, 70, 5, 25, 150, Pts(999))}                           \* too few bars
    \cup {MkFrames(60, 1, 1, 70, 5, 25, 150, c) : c \in UpCloses}           \* up, PAMM 120
    \cup {MkFrames(60, 0 - 1, 0 - 1, 30, 0 - 5, 25, 150, c) : c \in DownCloses} \* down, PAMM 120
    \cup {MkFrames(60, 1, 1, 50, 5, 25, 150, Pts(1000))}                    \* up, PAMM 80
    \cup {MkFrames(60, 1, 0 - 1, 50, 0, 25, 150, Pts(1000))}                \* up, PAMM 10

EmptyFrames == [k \in Timeframes |-> Frame(0, Row(0, 50, 0, 0, 100, 0))]

(***************************************************************************)
(* runtime_manager.py                                                      *)
(***************************************************************************)
RuntimeDecision(signal, stop_price, reason, meta) ==
    [signal |-> signal, stop_price |-> stop_price, reason |-> reason, meta |-> meta]

_position_dir(pos) == IF pos.side = "long" THEN 1 ELSE 0 - 1

\* _current_dir_from_frames seeing every frame as bullish
_current_dir_from_frames_up(fr) == 1

_current_dir_from_frames(fr) ==
    IF fr["df5"].row.ema9 >= fr["df5"].row.ema21 THEN 1 ELSE 0 - 1

_pnl_points(pos, price) ==
    IF ~pos.open \/ pos.entry_price <= 0
    THEN 0
    ELSE (price - pos.entry_price) * _position_dir(pos)

\* LadderOffset with the stop locked at entry+50 / entry+100 inside the two
\* lower tiers instead of trailing the price
LadderOffsetLocked(pnl_pts) ==
    IF Pts(150) <= pnl_pts /\ pnl_pts < Pts(200) THEN pnl_pts - Pts(50)
    ELSE IF Pts(200) <= pnl_pts /\ pnl_pts < Pts(300) THEN pnl_pts - Pts(100)
    ELSE Pts(150)

\* LadderOffset with the top tier trailing by the lower tiers' distance
LadderOffsetTopTier100(pnl_pts) == Pts(100)

\* the ladder's trailing distance for a profit of pnl_pts (>= 150 points)
LadderOffset(pnl_pts) ==
    IF Pts(150) <= pnl_pts /\ pnl_pts < Pts(200) THEN Pts(100)
    ELSE IF Pts(200) <= pnl_pts /\ pnl_pts < Pts(300) THEN Pts(100)
    ELSE Pts(150)

LadderLevel(pnl_pts) ==
    IF Pts(150) <= pnl_pts /\ pnl_pts < Pts(200) THEN "L1"
    ELSE IF Pts(200) <= pnl_pts /\ pnl_pts < Pts(300) THEN "L2"
    ELSE "L3"

\* the candidate before the minimum-move and clamp checks
TrailCandidate(pos, price) ==
    LET d == _position_dir(pos)
        raw == price - LadderOffset(_pnl_points(pos, price)) * d
    IN  IF pos.stop_price > 0
        THEN IF d = 1 THEN Max(raw, pos.stop_price) ELSE Min(raw, pos.stop_price)
        ELSE raw

\* [update, new_stop, reason]: update = FALSE is the code's (None, reason)
_calc_trailing_stop(pos, price) ==
    LET pnl_pts == _pnl_points(pos, price)
        lvl == LadderLevel(pnl_pts)
        candidate == TrailCandidate(pos, price)
        move == Abs(candidate - pos.stop_price)
    IN  IF pnl_pts < Pts(150)
        THEN [update |-> FALSE, new_stop |-> 0, reason |-> "NO_TRAIL_YET"]
        ELSE IF pos.stop_price > 0 /\ move < MIN_STOP_MOVE_PTS
        THEN [update |-> FALSE, new_stop |-> 0, reason |-> "TRAIL_" \o lvl \o "_SKIP small_move"]
        ELSE IF pos.stop_price > 0 /\ move > MAX_STOP_TIGHTEN_PER_POLL_PTS
        THEN [update |-> FALSE, new_stop |-> 0, reason |-> "TRAIL_" \o lvl \o "_SKIP huge_move"]
        ELSE [update |-> TRUE, new_stop |-> candidate, reason |-> "TRAIL_" \o lvl]

QtyOrOne(qty) == IF qty = 0 THEN 1 ELSE qty

\* EarlyExitWindow never closing
EarlyExitWindowAlways(pnl_pts) == TRUE

\* the PAMM early-exit rules are consulted only before +150 points
EarlyExitWindow(pnl_pts) == pnl_pts < Pts(150)

\* position management without rule 0
CatastrophicLossNever(pnl_usd_est) == FALSE

\* CatastrophicLoss with a strict comparison
CatastrophicLossStrict(pnl_usd_est) == pnl_usd_est < 0 - 500

\* rule 0 of position management: any trade at -$5.00 or worse
CatastrophicLoss(pnl_usd_est) == pnl_usd_est <= 0 - 500

\* the position-management branch (pos.open): [rd, st]
ManagePosition(st0, pos, machine_id, symbol, fr, t) ==
    LET price == fr["df5"].row.close
        pnl_pts == _pnl_points(pos, price)
        pnl_usd_est == pnl_pts * POINT_VALUE_USD * QtyOrOne(pos.qty)
        meta == [runtime |-> TRUE, entry_price |-> pos.entry_price, qty |-> pos.qty,
                 pnl_pts |-> pnl_pts, pnl_usd_est |-> pnl_usd_est]
        d == _position_dir(pos)
        pamm_now == compute_pamm_now(fr)
        metaP == [runtime |-> TRUE, entry_price |-> pos.entry_price, qty |-> pos.qty,
                  pnl_pts |-> pnl_pts, pnl_usd_est |-> pnl_usd_est, pamm |-> pamm_now]
        bars_in_trade == IF pos.entry_time_utc # NoTime
                         THEN (t - pos.entry_time_utc) \div 300 ELSE 0
        closed == [pos EXCEPT !.open = FALSE]
        stClosed == set_position(st0, machine_id, symbol, closed, t)
        current_dir == _current_dir_from_frames(fr)
        trail == _calc_trailing_stop(pos, price)
        metaT == [runtime |-> TRUE, entry_price |-> pos.entry_price, qty |-> pos.qty,
                  pnl_pts |-> pnl_pts, pnl_usd_est |-> pnl_usd_est, pamm |-> pamm_now,
                  trail_reason |-> trail.reason]
    IN  IF CatastrophicLoss(pnl_usd_est)
        THEN [rd |-> RuntimeDecision("FLAT", 0, "KILL_SWITCH_SINGLE_LOSS", meta),
              st |-> set_kill_triggered(stClosed, machine_id, TRUE, t)]
        ELSE IF pos.stop_price > 0
                /\ ((d = 1 /\ price <= pos.stop_price) \/ (d = 0 - 1 /\ price >= pos.stop_price))
        THEN [rd |-> RuntimeDecision("FLAT", 0, "STOP_HIT_RENDER", meta), st |-> stClosed]
        ELSE IF EarlyExitWindow(pnl_pts) /\ bars_in_trade >= 4 /\ pamm_now < 900
        THEN [rd |-> RuntimeDecision("FLAT", 0, "EARLY_EXIT_PAMM_WEAK", metaP), st |-> stClosed]
        ELSE IF EarlyExitWindow(pnl_pts) /\ pamm_now < 700
        THEN [rd |-> RuntimeDecision("FLAT", 0, "EARLY_EXIT_PAMM_FAIL", metaP), st |-> stClosed]
        ELSE IF current_dir # d /\ pamm_now >= REVERSAL_PAMM_THRESHOLD
        THEN [rd |-> RuntimeDecision("FLAT", 0, "REVERSAL_CLOSE", metaP), st |-> stClosed]
        ELSE IF trail.update /\ trail.new_stop # pos.stop_price
        THEN [rd |-> RuntimeDecision(IF d = 1 THEN "LONG" ELSE "SHORT", trail.new_stop,
                                     trail.reason, metaT),
              st |-> set_position(st0, machine_id, symbol,
                        [pos EXCEPT !.stop_price = trail.new_stop,
                                    !.last_stop_update_utc = t], t)]
        ELSE [rd |-> RuntimeDecision(IF d = 1 THEN "LONG" ELSE "SHORT", pos.stop_price,
                                     "HOLD", metaT),
              st |-> st0]

\* InitialStop placed on the profit side of the entry
InitialStopSameSide(price, direction) == price + Pts(50) * direction

\* the fixed 50-point hard stop: below the price for a long, above for a short
InitialStop(price, direction) == price + Pts(50) * (0 - direction)

\* EvaluateEntry marking the suggested position open at once
EvaluateEntryOpens(st0, pos, machine_id, symbol, fr, t) ==
    LET sig == StrategyDecide(_make_strategy, fr)
        price == fr["df5"].row.close
        direction == IF sig.side = "buy" THEN 1 ELSE 0 - 1
        stop_loss == InitialStop(price, direction)
        pending == [pos EXCEPT !.side = IF sig.side = "buy" THEN "long" ELSE "short",
                               !.entry_price = price,
                               !.stop_price = stop_loss,
                               !.initial_stop = stop_loss,
                               !.qty = QtyOrOne(pos.qty),
                               !.entry_time_utc = t,
                               !.open = TRUE,
                               !.last_stop_update_utc = t]
    IN  IF sig.side = "flat"
        THEN [rd |-> RuntimeDecision("FLAT", 0, sig.reason,
                        [runtime |-> TRUE, pamm |-> compute_pamm_now(fr)]),
              st |-> st0]
        ELSE [rd |-> RuntimeDecision(IF sig.side = "buy" THEN "LONG" ELSE "SHORT", stop_loss,
                        sig.reason,
                        [runtime |-> TRUE, pamm |-> compute_pamm_now(fr), pending_entry |-> TRUE]),
              st |-> set_position(st0, machine_id, symbol, pending, t)]

\* the entry branch (not pos.open): [rd, st]
EvaluateEntry(st0, pos, machine_id, symbol, fr, t) ==
    LET sig == StrategyDecide(_make_strategy, fr)
        price == fr["df5"].row.close
        direction == IF sig.side = "buy" THEN 1 ELSE 0 - 1
        stop_loss == InitialStop(price, direction)
        pending == [pos EXCEPT !.side = IF sig.side = "buy" THEN "long" ELSE "short",
                               !.entry_price = price,
                               !.stop_price = stop_loss,
                               !.initial_stop = stop_loss,
                               !.qty = QtyOrOne(pos.qty),
                               !.entry_time_utc = t,
                               !.open = FALSE,
                               !.last_stop_update_utc = t]
    IN  IF sig.side = "flat"
        THEN [rd |-> RuntimeDecision("FLAT", 0, sig.reason,
                        [runtime |-> TRUE, pamm |-> compute_pamm_now(fr)]),
              st |-> st0]
        ELSE [rd |-> RuntimeDecision(IF sig.side = "buy" THEN "LONG" ELSE "SHORT", stop_loss,
                        sig.reason,
                        [runtime |-> TRUE, pamm |-> compute_pamm_now(fr), pending_entry |-> TRUE]),
              st |-> set_position(st0, machine_id, symbol, pending, t)]

\* InsufficientData with a minimum of 10 bars
InsufficientDataBelow10(fr) == \E k \in Timeframes : fr[k].len < 10

\* fewer than 50 bars on any of the four timeframes
InsufficientData(fr) == \E k \in Timeframes : fr[k].len < MinBars

\* the original /poll behaviour used when the runtime manager is disabled
EntryOnly(st, fr) ==
    LET sig == StrategyDecide(_make_strategy, fr)
        price == fr["df5"].row.close
        direction == IF sig.side = "buy" THEN 1 ELSE 0 - 1
    IN  IF InsufficientData(fr)
        THEN [rd |-> RuntimeDecision("FLAT", 0, "INSUFFICIENT_MULTI_TF_CANDLES", [runtime |-> FALSE]),
              st |-> st]
        ELSE IF sig.side = "flat"
        THEN [rd |-> RuntimeDecision("FLAT", 0, sig.reason, [runtime |-> FALSE]), st |-> st]
        ELSE [rd |-> RuntimeDecision(IF sig.side = "buy" THEN "LONG" ELSE "SHORT",
                        InitialStop(price, direction), sig.reason, [runtime |-> FALSE]),
              st |-> st]

\* DailyLossTripped with a strict comparison
DailyLossTrippedStrict(realized) == realized < 0 - Abs(MAX_DAILY_LOSS_USD)

\* the automatic kill switch's test of the daily realized P&L
DailyLossTripped(realized) == realized <= 0 - Abs(MAX_DAILY_LOSS_USD)

\* FillConfirmed taking a pending entry for a position
FillConfirmedOrPending(pos) == pos.open \/ pos.entry_price > 0

\* a position is managed only once its fill is confirmed
FillConfirmed(pos) == pos.open

\* decide_with_runtime(machine_id, symbol) on store st, frames fr, at time t
\* under settings cfg: [rd |-> the RuntimeDecision, st |-> the store after]
decide_with_runtime(st, machine_id, symbol, fr, t, cfg) ==
    LET s1 == GetPositionStore(st, machine_id, symbol, t)
        pos == get_position(st, machine_id, symbol, t)
        s2 == IF cfg.ENABLE_AUTO_KILL_SWITCH
                 /\ DailyLossTripped(get_realized_pnl(s1, machine_id, t))
              THEN set_kill_triggered(s1, machine_id, TRUE, t)
              ELSE s1
    IN  IF ~RUNTIME_MANAGER_ENABLED THEN EntryOnly(st, fr)
        ELSE IF InsufficientData(fr)
        THEN [rd |-> RuntimeDecision("FLAT", 0, "INSUFFICIENT_MULTI_TF_CANDLES", [runtime |-> FALSE]),
              st |-> st]
        ELSE IF get_consecutive_losses(s2, machine_id, t) >= 3
        THEN [rd |-> RuntimeDecision("FLAT", 0, "KILL_SWITCH_3_LOSSES",
                        [runtime |-> TRUE, consecutive_losses |-> 3]),
              st |-> set_kill_triggered(s2, machine_id, TRUE, t)]
        ELSE IF is_kill_triggered(s2, machine_id, t) \/ s2.kill_switch
        THEN [rd |-> RuntimeDecision("FLAT", 0, "KILL_SWITCH_AUTO", [runtime |-> TRUE]), st |-> s2]
        ELSE IF cfg.COOLDOWN_SECONDS > 0 /\ pos.last_sl_time_utc # NoTime
                /\ t - pos.last_sl_time_utc < cfg.COOLDOWN_SECONDS
        THEN [rd |-> RuntimeDecision("FLAT", 0, "COOLDOWN",
                        [runtime |-> TRUE,
                         cooldown_remaining_s |-> cfg.COOLDOWN_SECONDS - (t - pos.last_sl_time_utc)]),
              st |-> s2]
        ELSE IF ~FillConfirmed(pos)
        THEN EvaluateEntry(s2, pos, machine_id, symbol, fr, t)
        ELSE ManagePosition(s2, pos, machine_id, symbol, fr, t)

(***************************************************************************)
(* routes.py                                                               *)
(***************************************************************************)
NoResp == [op |-> "none"]

\* no request is being handled and none has overlapped another
NoThreads == [base |-> BotState, ops |-> << >>]

PollResponse(machineId, symbol, mode, signal, stop_price, reason, meta) ==
    [op |-> "poll", machineId |-> machineId, symbol |-> symbol, mode |-> mode,
     signal |-> signal, stop_price |-> stop_price, reason |-> reason, meta |-> meta]

\* an unhandled exception in a handler: the framework answers 500
ServerError(machineId, symbol) ==
    [op |-> "poll_error", machineId |-> machineId, symbol |-> symbol, status |-> 500]

\* what db.insert_fingerprint does: it writes the row or raises
DbOutcomes == {"ok", "error"}

\* GET /poll.  On the global kill-switch path the fingerprint is inserted
\* outside any try block, after set_decision; on the normal path building and
\* inserting the fingerprint is wrapped in try/except Exception.
Poll(machineId, symbol) ==
    /\ IF config.KILL_SWITCH \/ state.kill_switch
       THEN \E db_result \in DbOutcomes :
                /\ state' = set_decision(state, "FLAT", 0, "KILL_SWITCH")
                /\ resp' = IF db_result = "error"
                           THEN ServerError(machineId, symbol)
                           ELSE PollResponse(machineId, symbol, state.mode, "FLAT", 0,
                                             "KILL_SWITCH", EmptyDict)
       ELSE LET r == decide_with_runtime(state, machineId, symbol, frames[symbol], now, config)
            IN  /\ state' = set_decision(r.st, r.rd.signal, r.rd.stop_price, r.rd.reason)
                /\ resp' = PollResponse(machineId, symbol, state.mode, r.rd.signal,
                                        r.rd.stop_price, r.rd.reason, r.rd.meta)
    /\ UNCHANGED <<frames, now, config, ninputs, inflight>>

FillSides == {"BUY", "SELL"}
FillQtys == {0, 1}
FillPrices == {Pts(990), Pts(1000)}

\* the store after POST /fills
ApplyFill(st, machineId, symbol, fside, qty, price, t) ==
    LET s1 == GetPositionStore(st, machineId, symbol, t)
        pos == get_position(st, machineId, symbol, t)
        side == IF fside = "BUY" THEN "long" ELSE "short"
    IN  IF ~pos.open
        THEN set_position(s1, machineId, symbol,
                [pos EXCEPT !.side = side, !.entry_price = price, !.qty = qty,
                            !.entry_time_utc = t, !.open = TRUE], t)
        ELSE IF pos.side # None /\ side # pos.side
        THEN set_position(s1, machineId, symbol,
                [pos EXCEPT !.open = FALSE, !.exit_price = price, !.exit_time_utc = t], t)
        ELSE s1

\* POST /fills
Fills(machineId, symbol, fside, qty, price) ==
    /\ ninputs < MaxInputs
    /\ ninputs' = ninputs + 1
    /\ state' = ApplyFill(state, machineId, symbol, fside, qty, price, now)
    /\ resp' = [op |-> "fills", machineId |-> machineId, symbol |-> symbol]
    /\ UNCHANGED <<frames, now, config, inflight>>

\* POST /reset-kill-switch
ResetKillSwitch(machineId) ==
    /\ state' = reset_consecutive_losses(
                    set_kill_triggered(state, machineId, FALSE, now), machineId, now)
    /\ resp' = [op |-> "reset-kill-switch", machineId |-> machineId]
    /\ UNCHANGED <<frames, now, config, ninputs, inflight>>

\* POST /candles: new bars change what load_frames(symbol) returns
PostCandles(symbol, fr) ==
    /\ ninputs < MaxInputs
    /\ ninputs' = ninputs + 1
    /\ frames' = [frames EXCEPT ![symbol] = fr]
    /\ resp' = [op |-> "candles", symbol |-> symbol]
    /\ UNCHANGED <<state, now, config, inflight>>

(***************************************************************************)
(* The clock.                                                              *)
(***************************************************************************)
TickSteps == {1200}

Tick(dt) ==
    /\ ninputs < MaxInputs
    /\ ninputs' = ninputs + 1
    /\ now' = now + dt
    /\ UNCHANGED <<state, frames, config, resp, inflight>>

\* the clock passes the next UTC midnight
NextDay ==
    /\ ninputs < MaxInputs
    /\ ninputs' = ninputs + 1
    /\ now' = (Today(now) + 1) * SecondsPerDay
    /\ UNCHANGED <<state, frames, config, resp, inflight>>

(***************************************************************************)
(* The specification.  Init is the state after server.py's _startup.       *)
(***************************************************************************)
Init ==
    /\ config \in ConfigInputs
    /\ state = set_kill(set_mode(BotState, BOT_MODE), config.KILL_SWITCH)
    /\ frames = [s \in Symbols |-> EmptyFrames]
    /\ now = 0
    /\ resp = NoResp
    /\ ninputs = 0
    /\ inflight = NoThreads

Next ==
    \/ \E m \in MachineIds, s \in Symbols : Poll(m, s)
    \/ \E m \in MachineIds, s \in Symbols, fs \in FillSides, q \in FillQtys, p \in FillPrices :
            Fills(m, s, fs, q, p)
    \/ \E m \in MachineIds : ResetKillSwitch(m)
    \/ \E s \in Symbols, fr \in FrameInputs : PostCandles(s, fr)
    \/ \E dt \in TickSteps : Tick(dt)
    \/ NextDay

Spec == Init /\ [][Next]_vars

(***************************************************************************)
(* Overlapping requests.  poll and fills are plain "def" handlers, which    *)
(* the framework runs on worker threads, and the store's lock is held only *)
(* inside each StateStore method: get_position hands out the stored        *)
(* PositionState object itself and the handlers assign its fields after    *)
(* the lock is released.  A request is modelled in two steps: Begin is the *)
(* handler up to the point where it has read pos.open and chosen its       *)
(* branch, End is the field assignments of that branch and the response.   *)
(* inflight.ops lists the requests of the current window of overlapping   *)
(* requests in the order they began, inflight.base is the store when the   *)
(* window opened.                                                          *)
(***************************************************************************)
Running == {i \in DOMAIN inflight.ops : inflight.ops[i].pc = "write"}

\* a request joins the window of the requests it overlaps, or opens a new one
Joined(st, op) ==
    IF Running = {}
    THEN [base |-> st, ops |-> <<op>>]
    ELSE [inflight EXCEPT !.ops = Append(@, op)]

Finished(i) == [inflight EXCEPT !.ops[i].pc = "done"]

ThreadOp(kind, machineId, symbol, fside, qty, price, branch, rd, posw) ==
    [op |-> kind, machineId |-> machineId, symbol |-> symbol, fside |-> fside,
     qty |-> qty, price |-> price, t |-> now, fr |-> frames[symbol],
     pc |-> "write", branch |-> branch, rd |-> rd, posw |-> posw]

CloseReasons == {"STOP_HIT_RENDER", "EARLY_EXIT_PAMM_WEAK", "EARLY_EXIT_PAMM_FAIL",
                 "REVERSAL_CLOSE"}
TrailReasons == {"TRAIL_L1", "TRAIL_L2", "TRAIL_L3"}

\* the branch of decide_with_runtime that assigns fields of pos afterwards
DecideBranch(rd) ==
    IF "pending_entry" \in DOMAIN rd.meta THEN "entry"
    ELSE IF rd.reason = "KILL_SWITCH_SINGLE_LOSS" THEN "close_kill"
    ELSE IF rd.reason \in CloseReasons THEN "close"
    ELSE IF rd.reason \in TrailReasons THEN "trail"
    ELSE "none"

\* the assignments of that branch, made on the stored object as it is then
DecideAssign(pos, w) ==
    CASE w.branch = "entry" ->
            [pos EXCEPT !.side = w.posw.side, !.entry_price = w.posw.entry_price,
                        !.stop_price = w.posw.stop_price,
                        !.initial_stop = w.posw.initial_stop,
                        !.qty = QtyOrOne(pos.qty),
                        !.entry_time_utc = w.posw.entry_time_utc,
                        !.open = FALSE,
                        !.last_stop_update_utc = w.posw.last_stop_update_utc]
      [] w.branch \in {"close", "close_kill"} -> [pos EXCEPT !.open = FALSE]
      [] w.branch = "trail" ->
            [pos EXCEPT !.stop_price = w.posw.stop_price,
                        !.last_stop_update_utc = w.posw.last_stop_update_utc]
      [] OTHER -> pos

\* GET /poll up to the choice of the branch (runtime_manager.py 153-186 and
\* the reads of the management rules)
BeginPoll(machineId, symbol) ==
    LET r == decide_with_runtime(state, machineId, symbol, frames[symbol], now, config)
        branch == DecideBranch(r.rd)
        key == Key(machineId, symbol)
        s1 == GetPositionStore(state, machineId, symbol, now)
        sread == IF branch = "none" THEN r.st
                 ELSE [r.st EXCEPT !.positions = s1.positions,
                                   !.kill_switch_triggered_by_machine =
                                        IF branch = "close_kill"
                                        THEN s1.kill_switch_triggered_by_machine ELSE @]
        posw == IF branch = "none" THEN PositionState ELSE r.st.positions[key]
    IN  /\ ninputs < MaxInputs
        /\ Len(inflight.ops) < 2 \/ Running = {}
        /\ ~(config.KILL_SWITCH \/ state.kill_switch)
        /\ ninputs' = ninputs + 1
        /\ state' = sread
        /\ inflight' = Joined(state, ThreadOp("poll", machineId, symbol, "", 0, 0,
                                              branch, r.rd, posw))
        /\ UNCHANGED <<frames, now, config, resp>>

\* the rest of GET /poll: the assignments, set_position, set_decision, response
EndPoll(i) ==
    LET w == inflight.ops[i]
        key == Key(w.machineId, w.symbol)
        s1 == IF w.branch = "none" THEN state
              ELSE set_position(state, w.machineId, w.symbol,
                                DecideAssign(state.positions[key], w), now)
        s2 == IF w.branch = "close_kill"
              THEN set_kill_triggered(s1, w.machineId, TRUE, now) ELSE s1
    IN  /\ i \in Running /\ w.op = "poll"
        /\ state' = set_decision(s2, w.rd.signal, w.rd.stop_price, w.rd.reason)
        /\ resp' = PollResponse(w.machineId, w.symbol, state.mode, w.rd.signal,
                                w.rd.stop_price, w.rd.reason, w.rd.meta)
        /\ inflight' = Finished(i)
        /\ UNCHANGED <<frames, now, config, ninputs>>

\* POST /fills up to the test of pos.open (routes.py 203-210, 219)
BeginFill(machineId, symbol, fside, qty, price) ==
    LET pos == get_position(state, machineId, symbol, now)
        side == IF fside = "BUY" THEN "long" ELSE "short"
        branch == IF ~pos.open THEN "entry"
                  ELSE IF pos.side # None /\ side # pos.side THEN "exit" ELSE "none"
    IN  /\ ninputs < MaxInputs
        /\ Len(inflight.ops) < 2 \/ Running = {}
        /\ ninputs' = ninputs + 1
        /\ state' = GetPositionStore(state, machineId, symbol, now)
        /\ inflight' = Joined(state, ThreadOp("fills", machineId, symbol, fside, qty, price,
                                              branch, RuntimeDecision("", 0, "", EmptyDict),
                                              PositionState))
        /\ UNCHANGED <<frames, now, config, resp>>

FillAssign(pos, w) ==
    CASE w.branch = "entry" ->
            [pos EXCEPT !.side = IF w.fside = "BUY" THEN "long" ELSE "short",
                        !.entry_price = w.price, !.qty = w.qty,
                        !.entry_time_utc = w.t, !.open = TRUE]
      [] w.branch = "exit" ->
            [pos EXCEPT !.open = FALSE, !.exit_price = w.price, !.exit_time_utc = w.t]
      [] OTHER -> pos

\* the rest of POST /fills (routes.py 211-227)
EndFill(i) ==
    LET w == inflight.ops[i]
        key == Key(w.machineId, w.symbol)
    IN  /\ i \in Running /\ w.op = "fills"
        /\ state' = IF w.branch = "none" THEN state
                     ELSE set_position(state, w.machineId, w.symbol,
                                       FillAssign(state.positions[key], w), now)
        /\ resp' = [op |-> "fills", machineId |-> w.machineId, symbol |-> w.symbol]
        /\ inflight' = Finished(i)
        /\ UNCHANGED <<frames, now, config, ninputs>>

\* candles arrive between the windows
QuietPostCandles(symbol, fr) == Running = {} /\ PostCandles(symbol, fr)

NextConc ==
    \/ \E m \in MachineIds, s \in Symbols : BeginPoll(m, s)
    \/ \E i \in Running : EndPoll(i)
    \/ \E m \in MachineIds, s \in Symbols, fs \in FillSides, q \in FillQtys, p \in FillPrices :
            BeginFill(m, s, fs, q, p)
    \/ \E i \in Running : EndFill(i)
    \/ \E s \in Symbols, fr \in FrameInputs : QuietPostCandles(s, fr)

SpecConc == Init /\ [][NextConc]_vars

(***************************************************************************)
(* The state store under any caller.  add_realized_pnl and                  *)
(* increment_consecutive_losses are public methods of StateStore; here     *)
(* they are called directly, next to the handlers, with a reduced set of    *)
(* fills and candles.                                                      *)
(***************************************************************************)
MaxLosses == 3
PnlInputs == {0 - 375, 500}
StoreFillPrices == {Pts(1000)}
StoreFrameInputs ==
    {MkFrames(10, 1, 1, 70, 5, 25, 150, Pts(1000)),
     MkFrames(60, 1, 1, 70, 5, 25, 150, Pts(1000))}

\* STORE.add_realized_pnl(machine_id, pnl_usd)
AddRealizedPnl(machineId, pnl_usd) ==
    /\ ninputs < MaxInputs
    /\ ninputs' = ninputs + 1
    /\ state' = add_realized_pnl(state, machineId, pnl_usd, now)
    /\ UNCHANGED <<frames, now, config, resp, inflight>>

\* STORE.increment_consecutive_losses(machine_id)
IncrementConsecutiveLosses(machineId) ==
    /\ get_consecutive_losses(state, machineId, now) < MaxLosses
    /\ state' = increment_consecutive_losses(state, machineId, now)
    /\ UNCHANGED <<frames, now, config, resp, ninputs, inflight>>

NextStore ==
    \/ \E m \in MachineIds, s \in Symbols : Poll(m, s)
    \/ \E m \in MachineIds, s \in Symbols, fs \in FillSides, p \in StoreFillPrices :
            Fills(m, s, fs, 1, p)
    \/ \E m \in MachineIds : ResetKillSwitch(m)
    \/ \E s \in Symbols, fr \in StoreFrameInputs : PostCandles(s, fr)
    \/ NextDay
    \/ \E m \in MachineIds, pnl \in PnlInputs : AddRealizedPnl(m, pnl)
    \/ \E m \in MachineIds : IncrementConsecutiveLosses(m)

StoreSpec == Init /\ [][NextStore]_vars

(***************************************************************************)
(* The filter chain as a function of the frames and of the Strategy        *)
(* object.  The frames take every combination of trend per timeframe: the  *)
(* trend d is 1 (EMA9 above EMA21 and EMA50), 0 (EMA9 = EMA21 = EMA50, up   *)
(* by EMA9 >= EMA21 and down by EMA9 > EMA50) or -1 (EMA9 below both).      *)
(***************************************************************************)
Trends == {0 - 1, 0, 1}

MkFramesTrends(n, d, rsi, macdh, adxv, relvol, close) ==
    [k \in Timeframes |-> Frame(n, Row(d[k], rsi, macdh, adxv, relvol, close))]

FilterFrameInputs ==
    {MkFramesTrends(60, d, rsi, macdh, 25, 150, Pts(1000)) :
        d \in [Timeframes -> Trends], rsi \in {50, 70}, macdh \in {0, 5}}
    \cup {MkFrames(10, 1, 0 - 1, 70, 5, 25, 150, Pts(1000))}

\* Strategy objects for the settings of USE_REGIME_FILTER and USE_MULTI_TF_MACD
StrategyInputs ==
    {[_make_strategy EXCEPT !.use_regime_filter = r, !.use_multi_tf_macd = m] :
        r \in BOOLEAN, m \in BOOLEAN}

\* strat.decide(load_frames(symbol)) and the PAMM score of the same frames
StrategyDecides(strat, symbol) ==
    LET fr == frames[symbol]
    IN  /\ resp' = [op |-> "decide", symbol |-> symbol, strat |-> strat,
                    sig |-> StrategyDecide(strat, fr),
                    pamm |-> _score_pamm(fr["df5"].row, fr["df1"].row,
                                         fr["df15"].row, fr["df30"].row)]
        /\ UNCHANGED <<state, frames, now, config, ninputs, inflight>>

NextFilter ==
    \/ \E s \in Symbols, fr \in FilterFrameInputs : PostCandles(s, fr)
    \/ \E strat \in StrategyInputs, s \in Symbols : StrategyDecides(strat, s)

FilterSpec == Init /\ [][NextFilter]_vars

(***************************************************************************)
(* The server started with either setting of the KILL_SWITCH environment   *)
(* variable.                                                               *)
(***************************************************************************)
KillConfigInputs ==
    [COOLDOWN_SECONDS : {60}, KILL_SWITCH : BOOLEAN,
     ENABLE_AUTO_KILL_SWITCH : {ENABLE_AUTO_KILL_SWITCH}]

InitKill ==
    /\ config \in KillConfigInputs
    /\ state = set_kill(set_mode(BotState, BOT_MODE), config.KILL_SWITCH)
    /\ frames = [s \in Symbols |-> EmptyFrames]
    /\ now = 0
    /\ resp = NoResp
    /\ ninputs = 0
    /\ inflight = NoThreads

KillSpec == InitKill /\ [][Next]_vars

(***************************************************************************)
(* GET /status next to the store's methods.                                *)
(***************************************************************************)
\* StateStore.get applying the day rollover first
StoreGetWithRollover(st, t) == _day_rollover_if_needed(st, t)

\* StateStore.get(): the state object itself, under the lock
StoreGet(st, t) == st

\* GET /status
Status ==
    LET st == StoreGet(state, now)
    IN  /\ state' = st
        /\ resp' = [op |-> "status", mode |-> st.mode, kill_switch |-> st.kill_switch,
                    last_signal |-> st.last_signal,
                    last_stop_price |-> st.last_stop_price,
                    last_reason |-> st.last_reason]
        /\ UNCHANGED <<frames, now, config, ninputs, inflight>>

NextStatus ==
    \/ NextStore
    \/ Status

StatusSpec == Init /\ [][NextStatus]_vars

(***************************************************************************)
(* An open long followed through frames of low PAMM score, below and above *)
(* +150 points of profit.                                                  *)
(***************************************************************************)
ExitCloses == {Pts(1000), Pts(1100), Pts(1160)}

ExitFrameInputs ==
    {MkFrames(60, 1, 1, 70, 5, 25, 150, Pts(1000))}                      \* up, PAMM 120
    \cup {MkFrames(60, 1, 1, 50, 5, 25, 150, c) : c \in ExitCloses}          \* up, PAMM 80
    \cup {MkFrames(60, 1, 0 - 1, 50, 0, 25, 150, c) : c \in ExitCloses}      \* up, PAMM 10

NextExit ==
    \/ \E m \in MachineIds, s \in Symbols : Poll(m, s)
    \/ \E m \in MachineIds, s \in Symbols, fs \in FillSides, p \in StoreFillPrices :
            Fills(m, s, fs, 1, p)
    \/ \E s \in Symbols, fr \in ExitFrameInputs : PostCandles(s, fr)
    \/ \E dt \in TickSteps : Tick(dt)

ExitSpec == Init /\ [][NextExit]_vars

(***************************************************************************)
(* The filter chain on frames that fail several filters at once, for every *)
(* setting of the four filter toggles.                                     *)
(***************************************************************************)
ChainRsis == {30, 50, 70}
ChainMacds == {0 - 5, 0, 5}
ChainAdxs == {10, 25}
ChainRelVols == {100, 150, 250}
ChainVwapOffsets == {0 - Pts(5), Pts(5)}
ChainPatterns == {"none", "hammer", "inverted_hammer"}

\* the 1m and 15m frames follow the 5m trend d5, the 30m frame has trend d30
MkFramesChain(d5, d30, rsi, macdh, adxv, relvol, vwapOff, pattern) ==
    [k \in Timeframes |->
        [len |-> 60,
         row |-> [Row(IF k = "df30" THEN d30 ELSE d5, rsi, macdh, adxv, relvol, Pts(1000))
                      EXCEPT !.vwap = Pts(1000) + vwapOff],
         pattern |-> pattern]]

ChainFrameInputs ==
    {MkFramesChain(d5, d30, rsi, macdh, adxv, relvol, vo, pat) :
        d5 \in Trends, d30 \in {0 - 1, 1}, rsi \in ChainRsis, macdh \in ChainMacds,
        adxv \in ChainAdxs, relvol \in ChainRelVols, vo \in ChainVwapOffsets,
        pat \in ChainPatterns}
    \cup {MkFrames(10, 1, 1, 70, 5, 25, 150, Pts(1000))}

\* Strategy objects for every setting of the four USE_* toggles
ChainStrategyInputs ==
    {[_make_strategy EXCEPT !.use_vwap = v, !.use_regime_filter = r,
                            !.use_candle_patterns = c, !.use_multi_tf_macd = m] :
        v \in BOOLEAN, r \in BOOLEAN, c \in BOOLEAN, m \in BOOLEAN}

\* the server started on a database that holds the candles of the frames
InitChain ==
    /\ config \in ConfigInputs
    /\ state = set_kill(set_mode(BotState, BOT_MODE), config.KILL_SWITCH)
    /\ frames \in {[s \in Symbols |-> fr] : fr \in ChainFrameInputs}
    /\ now = 0
    /\ resp = NoResp
    /\ ninputs = 0
    /\ inflight = NoThreads

NextChain ==
    \E strat \in ChainStrategyInputs, s \in Symbols : StrategyDecides(strat, s)

ChainSpec == InitChain /\ [][NextChain]_vars

(***************************************************************************)
(* Several machines and symbols.  machineId and symbol are free strings of *)
(* the requests, so either may contain the ":" that joins them in a key.   *)
(***************************************************************************)
KeyMachineIds == {"m1", "m1:MBT"}
KeySymbols == {"MBT", "MBT:MBT"}

InitKey ==
    /\ config \in ConfigInputs
    /\ state = set_kill(set_mode(BotState, BOT_MODE), config.KILL_SWITCH)
    /\ frames = [s \in KeySymbols |-> EmptyFrames]
    /\ now = 0
    /\ resp = NoResp
    /\ ninputs = 0
    /\ inflight = NoThreads

NextKey ==
    \/ \E m \in KeyMachineIds, s \in KeySymbols : Poll(m, s)
    \/ \E m \in KeyMachineIds, s \in KeySymbols, fs \in FillSides, p \in StoreFillPrices :
            Fills(m, s, fs, 1, p)
    \/ \E s \in KeySymbols, fr \in StoreFrameInputs : PostCandles(s, fr)

KeySpec == InitKey /\ [][NextKey]_vars

(***************************************************************************)
(* The audit fingerprint of a poll.                                        *)
(***************************************************************************)
\* build_fingerprint takes seven positional parameters, then the keyword-only
\* decision_id (no default), mode and timeframe (both defaulted)
FingerprintRequiredKeywords == {"decision_id"}

\* the keyword arguments of poll's call
\* build_fingerprint(machineId, symbol, frames, fp_strat, signal, stop_price, reason)
PollFingerprintKeywords == {}

\* the call returns a fingerprint, or raises TypeError when a keyword-only
\* parameter without a default is not passed
build_fingerprint(keywords) ==
    IF FingerprintRequiredKeywords \subseteq keywords THEN "fingerprint" ELSE "TypeError"

\* rows persisted by the normal path of poll:
\* try: fp = build_fingerprint(...); db.insert_fingerprint(**fp)
\* except Exception: pass
PollFingerprintRows(db_result) ==
    IF build_fingerprint(PollFingerprintKeywords) = "TypeError" \/ db_result = "error"
    THEN 0
    ELSE 1

(***************************************************************************)
(* The service started with ENABLE_AUTO_KILL_SWITCH=false in its           *)
(* environment.                                                            *)
(***************************************************************************)
AutoOffConfigInputs ==
    [COOLDOWN_SECONDS : {60}, KILL_SWITCH : {KILL_SWITCH}, ENABLE_AUTO_KILL_SWITCH : {FALSE}]

InitAutoOff ==
    /\ config \in AutoOffConfigInputs
    /\ state = set_kill(set_mode(BotState, BOT_MODE), config.KILL_SWITCH)
    /\ frames = [s \in Symbols |-> EmptyFrames]
    /\ now = 0
    /\ resp = NoResp
    /\ ninputs = 0
    /\ inflight = NoThreads

AutoOffSpec == InitAutoOff /\ [][Next]_vars

(***************************************************************************)
(* Properties.                                                             *)
(***************************************************************************)
Positions == state.positions
IsPoll == resp.op = "poll"
RespKey == Key(resp.machineId, resp.symbol)
RespDir == IF resp.signal = "LONG" THEN 1 ELSE 0 - 1
RespClose == frames[resp.symbol]["df5"].row.close
HasMeta(f) == IsPoll /\ f \in DOMAIN resp.meta
KillFlag(m) == Get(state.kill_switch_triggered_by_machine, m, FALSE)

\* C1: while a position stays open, the stored stop of a long never decreases
\* and the stored stop of a short never increases.
C1_StopOnlyTightens ==
    [][\A k \in DOMAIN Positions :
          (/\ Positions[k].open /\ Positions'[k].open
           /\ Positions'[k].side = Positions[k].side
           /\ Positions[k].qty > 0 /\ Positions[k].entry_price > 0)
          => /\ Positions[k].side = "long" => Positions'[k].stop_price >= Positions[k].stop_price
             /\ Positions[k].side = "short" => Positions'[k].stop_price <= Positions[k].stop_price
      ]_vars

C4_CatastrophicLossBoundary ==
    [][\A m \in MachineIds, s \in Symbols :
          (Poll(m, s) /\ "pnl_usd_est" \in DOMAIN resp'.meta /\ QtyOrOne(resp'.meta.qty) = 1)
          => /\ resp'.meta.pnl_usd_est = resp'.meta.pnl_pts * POINT_VALUE_USD
             /\ resp'.meta.pnl_pts = _pnl_points(Positions[Key(m, s)],
                                                 frames[s]["df5"].row.close)
             /\ Positions[Key(m, s)].open
             /\ resp'.meta.pnl_pts <= 0 - Pts(1)
                  => /\ ~Positions'[Key(m, s)].open
                     /\ KillFlag(m)'
                     /\ resp'.signal = "FLAT"
                     /\ resp'.reason = "KILL_SWITCH_SINGLE_LOSS"
             /\ resp'.meta.pnl_pts > 0 - Pts(1)
                  => /\ resp'.reason # "KILL_SWITCH_SINGLE_LOSS"
                     /\ ~KillFlag(m)'
      ]_vars

\* a long from 1000.00 polled at 999.00 has been force-closed with the flag set
C4_Witness ==
    /\ IsPoll /\ resp.reason = "KILL_SWITCH_SINGLE_LOSS" /\ resp.signal = "FLAT"
    /\ resp.meta.pnl_pts = 0 - Pts(1) /\ resp.meta.qty = 1
    /\ KillFlag(resp.machineId) /\ ~Positions[RespKey].open

\* C5 as stated: once a machine's kill flag is set it stays set, and every
\* Decide for the machine returns FLAT, until reset-kill-switch; no other
\* event, a UTC day rollover included, clears it.
C5_OnlyResetClearsKill ==
    [][\A m \in MachineIds :
          (KillFlag(m) /\ ~ResetKillSwitch(m))
          => /\ KillFlag(m)'
             /\ \A s \in Symbols : Poll(m, s) => resp'.signal = "FLAT"
      ]_vars

\* C5 amended: once a machine's kill flag is set, every later Decide for the
\* machine returns FLAT and the flag stays set until reset-kill-switch or
\* until the UTC day changes (the first store access of the new day empties
\* every machine's kill flag).
C5_KillHoldsUntilResetOrRollover ==
    [][\A m \in MachineIds :
          (KillFlag(m) /\ ~ResetKillSwitch(m) /\ Today(now) = state.current_day_utc)
          => /\ KillFlag(m)'
             /\ \A s \in Symbols : Poll(m, s) => resp'.signal = "FLAT"
      ]_vars

\* a Decide answered FLAT because of the flag set earlier
C5_Witness ==
    /\ IsPoll /\ resp.reason = "KILL_SWITCH_AUTO" /\ resp.signal = "FLAT"
    /\ KillFlag(resp.machineId)

\* C6: a stop-hit records the stop-loss timestamp of the position (the start
\* of the cooldown that blocks the key for COOLDOWN_SECONDS).
C6_StopHitStartsCooldown ==
    (IsPoll /\ resp.reason = "STOP_HIT_RENDER"
        /\ resp.meta.qty > 0 /\ resp.meta.entry_price > 0)
    => /\ Positions[RespKey].last_sl_time_utc # NoTime
       /\ now - Positions[RespKey].last_sl_time_utc < config.COOLDOWN_SECONDS
            => \A m \in MachineIds, s \in Symbols :
                  Key(m, s) = RespKey =>
                      decide_with_runtime(state, m, s, frames[s], now, config).rd.reason
                          = "COOLDOWN"

\* realized P&L in cents of a trade entered at entry and closed at exit
RealizedPnlUsd(pos, exit) ==
    (exit - pos.entry_price) * _position_dir(pos) * pos.qty * POINT_VALUE_USD

\* C7: a fill on the side opposite to the open position closes it and adds
\* the trade's realized P&L to the machine's daily realized P&L.
C7_ClosingFillAddsRealizedPnl ==
    [][\A m \in MachineIds, s \in Symbols, fs \in FillSides, q \in FillQtys, p \in FillPrices :
          (/\ Fills(m, s, fs, q, p)
           /\ Key(m, s) \in DOMAIN Positions
           /\ Positions[Key(m, s)].open
           /\ Positions[Key(m, s)].side # (IF fs = "BUY" THEN "long" ELSE "short")
           /\ Positions[Key(m, s)].qty > 0 /\ Positions[Key(m, s)].entry_price > 0
           /\ Today(now) = state.current_day_utc)
          => /\ ~Positions'[Key(m, s)].open
             /\ Get(state'.daily_realized_pnl_by_machine, m, 0)
                  = Get(state.daily_realized_pnl_by_machine, m, 0)
                    + RealizedPnlUsd(Positions[Key(m, s)], p)
      ]_vars

\* C8: a closing fill increments the machine's consecutive-loss counter when
\* the trade lost money and resets it to zero when it did not.
C8_ClosingFillCountsLosses ==
    [][\A m \in MachineIds, s \in Symbols, fs \in FillSides, q \in FillQtys, p \in FillPrices :
          (/\ Fills(m, s, fs, q, p)
           /\ Key(m, s) \in DOMAIN Positions
           /\ Positions[Key(m, s)].open
           /\ Positions[Key(m, s)].side # (IF fs = "BUY" THEN "long" ELSE "short")
           /\ Positions[Key(m, s)].qty > 0 /\ Positions[Key(m, s)].entry_price > 0
           /\ Today(now) = state.current_day_utc)
          => Get(state'.consecutive_losses_by_machine, m, 0)
               = IF RealizedPnlUsd(Positions[Key(m, s)], p) < 0
                 THEN Get(state.consecutive_losses_by_machine, m, 0) + 1
                 ELSE 0
      ]_vars

IsOpen(positions, k) == k \in DOMAIN positions /\ positions[k].open

\* C9: Decide never turns a position's open flag on; an accepted entry is
\* stored as a pending entry (side, suggested entry price = last 5m close,
\* stop; open = FALSE); a position becomes open only by ApplyFill, which
\* sets entry_price, quantity and entry time from the fill.
C9_OnlyFillsOpen ==
    [][/\ \A m \in MachineIds, s \in Symbols :
            Poll(m, s) =>
              /\ \A k \in DOMAIN Positions' : Positions'[k].open => IsOpen(Positions, k)
              /\ "pending_entry" \in DOMAIN resp'.meta
                   => /\ resp'.signal \in {"LONG", "SHORT"}
                      /\ ~Positions'[Key(m, s)].open
                      /\ Positions'[Key(m, s)].side
                            = (IF resp'.signal = "LONG" THEN "long" ELSE "short")
                      /\ Positions'[Key(m, s)].entry_price = frames[s]["df5"].row.close
                      /\ Positions'[Key(m, s)].stop_price = resp'.stop_price
       /\ \A k \in DOMAIN Positions' :
            (Positions'[k].open /\ ~IsOpen(Positions, k))
            => \E m \in MachineIds, s \in Symbols, fs \in FillSides,
                  q \in FillQtys, p \in FillPrices :
                    /\ Fills(m, s, fs, q, p)
                    /\ Key(m, s) = k
                    /\ Positions'[k].entry_price = p
                    /\ Positions'[k].qty = q
                    /\ Positions'[k].entry_time_utc = now
      ]_vars

\* Decide has accepted an entry and left the position pending
C9_Witness ==
    /\ HasMeta("pending_entry") /\ resp.signal = "LONG"
    /\ ~Positions[RespKey].open
    /\ Positions[RespKey].side = "long"
    /\ Positions[RespKey].stop_price = RespClose - Pts(50)

\* C10: an open position has quantity > 0 and entry_price > 0.
C10_OpenImpliesPositive ==
    \A k \in DOMAIN Positions :
        Positions[k].open => (Positions[k].qty > 0 /\ Positions[k].entry_price > 0)

\* one whole request applied to store st
SerialStep(st, w) ==
    IF w.op = "poll"
    THEN LET r == decide_with_runtime(st, w.machineId, w.symbol, w.fr, w.t, config)
         IN  set_decision(r.st, r.rd.signal, r.rd.stop_price, r.rd.reason)
    ELSE ApplyFill(st, w.machineId, w.symbol, w.fside, w.qty, w.price, w.t)

\* PositionState of every key and the risk counters
Tracked(st) ==
    [positions |-> st.positions,
     daily_realized_pnl_by_machine |-> st.daily_realized_pnl_by_machine,
     kill_switch_triggered_by_machine |-> st.kill_switch_triggered_by_machine,
     consecutive_losses_by_machine |-> st.consecutive_losses_by_machine]

\* C11: when two requests on one key (Decide with Decide, or Decide with
\* ApplyFill) have overlapped and both are finished, the positions and risk
\* counters are those of one of the two serial orders of the two requests,
\* started from the store the window opened with.
C11_ConcurrentOpsSerializable ==
    (/\ Running = {} /\ Len(inflight.ops) = 2
     /\ \E i \in 1..2 : inflight.ops[i].op = "poll"
     /\ \A i \in 1..2 : inflight.ops[i].op = "fills" => inflight.ops[i].qty > 0)
    => LET a == inflight.ops[1]
           b == inflight.ops[2]
       IN  Tracked(state) \in
             {Tracked(SerialStep(SerialStep(inflight.base, a), b)),
              Tracked(SerialStep(SerialStep(inflight.base, b), a))}

Signals == {"LONG", "SHORT", "FLAT"}

\* C12: every Decide, in every reachable position/risk state and for every
\* frame content, returns a signal that is one of LONG, SHORT, FLAT and a
\* non-empty reason; so does every poll answered.
C12_DecisionWellFormed ==
    /\ \A m \in MachineIds, s \in Symbols :
          LET rd == decide_with_runtime(state, m, s, frames[s], now, config).rd
          IN  rd.signal \in Signals /\ rd.reason # ""
    /\ IsPoll => (resp.signal \in Signals /\ resp.reason # "")

\* a poll on an open position answered FLAT by a closing rule, with its reason
C12_Witness ==
    /\ IsPoll /\ resp.signal = "FLAT" /\ resp.reason = "REVERSAL_CLOSE"
    /\ ~Positions[RespKey].open

DailyPnl(st, m) == Get(st.daily_realized_pnl_by_machine, m, 0)
Losses(st, m) == Get(st.consecutive_losses_by_machine, m, 0)
Sufficient(s) == \A k \in Timeframes : frames[s][k].len >= MinBars
NewDay == Today(now) # state.current_day_utc

\* C13: once the UTC date has changed, the next read or write of the risk
\* counters through the store resets the daily realized P&L and the
\* consecutive-loss counter first: a write starts from zero, and a Decide
\* that reaches the counters sees them at zero and is not stopped by them.
C13_RolloverResetsCounters ==
    [][NewDay =>
        /\ \A m \in MachineIds, pnl \in PnlInputs :
              AddRealizedPnl(m, pnl)
              => /\ DailyPnl(state', m) = pnl /\ Losses(state', m) = 0
                 /\ state'.current_day_utc = Today(now)
        /\ \A m \in MachineIds :
              IncrementConsecutiveLosses(m)
              => /\ Losses(state', m) = 1 /\ DailyPnl(state', m) = 0
                 /\ state'.current_day_utc = Today(now)
        /\ \A m \in MachineIds, s \in Symbols :
              (Poll(m, s) /\ Sufficient(s))
              => /\ DailyPnl(state', m) = 0 /\ Losses(state', m) = 0
                 /\ state'.current_day_utc = Today(now)
                 /\ resp'.reason \notin {"KILL_SWITCH_3_LOSSES", "KILL_SWITCH_AUTO"}
      ]_vars

\* the last poll was stopped by three losses; the day changed; the first
\* write of the new day started the counters from zero
C13_Witness ==
    /\ IsPoll /\ resp.reason = "KILL_SWITCH_3_LOSSES"
    /\ state.current_day_utc = 1
    /\ DailyPnl(state, resp.machineId) = 500
    /\ Losses(state, resp.machineId) = 0

\* C14: if any of the four frames has fewer than 50 bars, a poll is answered
\* FLAT with stop price 0 and the insufficient-data reason, and the
\* positions and risk counters (the stored day included) stay exactly as
\* they were, whether the position is flat, pending or open.
C14_InsufficientDataLeavesState ==
    [][\A m \in MachineIds, s \in Symbols :
          (Poll(m, s) /\ ~Sufficient(s))
          => /\ resp'.op = "poll"
             /\ resp'.signal = "FLAT" /\ resp'.stop_price = 0
             /\ resp'.reason = "INSUFFICIENT_MULTI_TF_CANDLES"
             /\ Tracked(state') = Tracked(state)
             /\ state'.current_day_utc = state.current_day_utc
      ]_vars

\* an open position with a loss counted, polled with too few bars
C14_Witness ==
    /\ IsPoll /\ resp.reason = "INSUFFICIENT_MULTI_TF_CANDLES"
    /\ ~Sufficient(resp.symbol)
    /\ IsOpen(Positions, RespKey)
    /\ Losses(state, resp.machineId) >= 1

\* what a second Decide for key (m, s) returns right after the step
SecondDecide(m, s) == decide_with_runtime(state', m, s, frames[s], now, config)

\* C15 as stated: with frames, configuration and clock fixed, a second Decide
\* returns the signal and stop of the first and changes nothing.
C15_DecideIdempotent ==
    [][\A m \in MachineIds, s \in Symbols :
          (Poll(m, s) /\ (IsOpen(Positions, Key(m, s)) => Positions[Key(m, s)].qty > 0))
          => /\ SecondDecide(m, s).rd.signal = resp'.signal
             /\ SecondDecide(m, s).rd.stop_price = resp'.stop_price
             /\ Tracked(SecondDecide(m, s).st) = Tracked(state')
      ]_vars

\* C15 amended: the same, unless the first Decide closed the position by
\* stop-hit, early exit or reversal.
C15_IdempotentUnlessClosed ==
    [][\A m \in MachineIds, s \in Symbols :
          (Poll(m, s) /\ resp'.reason \notin CloseReasons)
          => /\ SecondDecide(m, s).rd.signal = resp'.signal
             /\ SecondDecide(m, s).rd.stop_price = resp'.stop_price
             /\ Tracked(SecondDecide(m, s).st) = Tracked(state')
      ]_vars

\* the second of two polls: the first moved the stop, the second finds the
\* ladder's candidate equal to the stored stop and holds
C15_Witness ==
    /\ IsPoll /\ resp.reason = "HOLD" /\ HasMeta("trail_reason")
    /\ resp.meta.trail_reason = "TRAIL_L1_SKIP small_move"
    /\ resp.stop_price = Positions[RespKey].stop_price

\* C16: when Decide accepts an entry, the returned stop is exactly 50 points
\* from the suggested entry price (the last 5m close) on the loss-limiting
\* side, close-50 for LONG and close+50 for SHORT, and the pending entry
\* stores that value as stop_price and as initial_stop.
C16_InitialStop50Points ==
    HasMeta("pending_entry")
    => /\ resp.signal \in {"LONG", "SHORT"}
       /\ resp.signal = "LONG" => resp.stop_price = RespClose - Pts(50)
       /\ resp.signal = "SHORT" => resp.stop_price = RespClose + Pts(50)
       /\ Positions[RespKey].entry_price = RespClose
       /\ Positions[RespKey].stop_price = resp.stop_price
       /\ Positions[RespKey].initial_stop = resp.stop_price

\* a short entry accepted at 840: stop and initial stop 890
C16_Witness ==
    /\ HasMeta("pending_entry") /\ resp.signal = "SHORT"
    /\ RespClose = Pts(840)
    /\ Positions[RespKey].initial_stop = Pts(890)
    /\ Positions[RespKey].stop_price = Pts(890)

IsDecide == resp.op = "decide"
\* trend of a row by EMA9 against EMA50, and by EMA9 against EMA21
RegimeDir(row) == IF row.ema9 > row.ema50 THEN 1 ELSE 0 - 1
EmaDir(row) == IF row.ema9 >= row.ema21 THEN 1 ELSE 0 - 1

\* C17: with the regime filter enabled and at least 50 bars on every frame,
\* if the 5m trend by EMA9 against EMA50 differs from the 30m trend by EMA9
\* against EMA50 the signal is flat with the mixed-regime reason, whatever
\* the PAMM score and the other filters.
C17_MixedRegimeIsFlat ==
    (/\ IsDecide /\ resp.strat.use_regime_filter /\ Sufficient(resp.symbol)
     /\ RegimeDir(frames[resp.symbol]["df5"].row)
            # RegimeDir(frames[resp.symbol]["df30"].row))
    => resp.sig = [side |-> "flat", reason |-> "Mixed regime (5m and 30m disagree)"]

\* 5m up and 30m down by EMA50 although all four frames agree by EMA21 and
\* the PAMM score is inside the entry range: flat, mixed regime
C17_Witness ==
    /\ IsDecide /\ resp.strat.use_regime_filter
    /\ resp.sig.reason = "Mixed regime (5m and 30m disagree)"
    /\ RegimeDir(frames[resp.symbol]["df5"].row) = 1
    /\ RegimeDir(frames[resp.symbol]["df30"].row) = 0 - 1
    /\ \A k \in Timeframes : EmaDir(frames[resp.symbol][k].row) = 1
    /\ resp.pamm.score >= PAMM_MIN /\ resp.pamm.score <= PAMM_MAX

\* the non-primary timeframes whose EMA9-vs-EMA21 direction matches the 5m one
Agreeing(fr) ==
    {k \in Timeframes \ {"df5"} : EmaDir(fr[k].row) = EmaDir(fr["df5"].row)}

\* row with its EMA9 moved across EMA21 so that its direction is not dir5;
\* RSI, MACD histogram and ADX are untouched
Disagreeing(row, dir5) ==
    [row EXCEPT !.ema9 = IF dir5 = 1 THEN row.ema21 - 1 ELSE row.ema21]

\* the score of the same frames with no non-primary timeframe agreeing
ScoreNoAgreement(fr) ==
    LET d5 == EmaDir(fr["df5"].row)
    IN  _score_pamm(fr["df5"].row, Disagreeing(fr["df1"].row, d5),
                    Disagreeing(fr["df15"].row, d5),
                    Disagreeing(fr["df30"].row, d5)).score

\* C18: with the RSI, MACD and ADX terms fixed, the PAMM score is the score s
\* of no agreement plus exactly 10 for each of the 1m, 15m and 30m frames
\* whose EMA9-vs-EMA21 direction matches the 5m direction: s, s+10, s+20,
\* s+30.
C18_AgreementAddsTen ==
    IsDecide
    => /\ resp.pamm.score = ScoreNoAgreement(frames[resp.symbol])
                              + 100 * Cardinality(Agreeing(frames[resp.symbol]))
       /\ resp.pamm.dir5 = EmaDir(frames[resp.symbol]["df5"].row)

\* all three non-primary frames agree with a falling 5m frame: s + 30
C18_Witness ==
    /\ IsDecide
    /\ EmaDir(frames[resp.symbol]["df5"].row) = 0 - 1
    /\ Cardinality(Agreeing(frames[resp.symbol])) = 3
    /\ resp.pamm.score = ScoreNoAgreement(frames[resp.symbol]) + 300

\* the kill conditions on the stored counters of machine m
KillConditions(m) ==
    \/ DailyPnl(state, m) <= 0 - MAX_DAILY_LOSS_USD
    \/ Losses(state, m) >= 3

\* the step is a Decide for (m, s): a poll that the global kill switch does
\* not answer
DecideStep(m, s) == Poll(m, s) /\ ~(config.KILL_SWITCH \/ state.kill_switch)

\* the Decide stopped on the kill switch: flag set, FLAT with a kill reason,
\* no stored position touched
StoppedByKill(m) ==
    /\ KillFlag(m)'
    /\ resp'.signal = "FLAT" /\ resp'.stop_price = 0
    /\ resp'.reason \in {"KILL_SWITCH_3_LOSSES", "KILL_SWITCH_AUTO"}
    /\ \A k \in DOMAIN Positions : Positions'[k] = Positions[k]

\* C19 as stated: a Decide made while the daily realized P&L is at or below
\* the daily-loss floor, or the consecutive-loss counter is 3 or more, sets
\* the machine's kill-triggered flag and returns FLAT without running the
\* filter chain or the position-management rules.
C19_KillConditionsStopDecide ==
    [][\A m \in MachineIds, s \in Symbols :
          (DecideStep(m, s) /\ KillConditions(m)) => StoppedByKill(m)]_vars

\* C19, amended: the same, for a Decide with at least 50 bars on every frame
\* made on the UTC day the counters were recorded.
C19_KillConditionsStopDecideWithData ==
    [][\A m \in MachineIds, s \in Symbols :
          (DecideStep(m, s) /\ KillConditions(m) /\ Sufficient(s) /\ ~NewDay)
          => StoppedByKill(m)]_vars

\* a Decide on entry-worthy frames was stopped with the daily realized P&L
\* exactly at the floor and fewer than 3 consecutive losses
C19_Witness ==
    /\ IsPoll /\ resp.reason = "KILL_SWITCH_AUTO"
    /\ Sufficient(resp.symbol) /\ ~NewDay
    /\ DailyPnl(state, resp.machineId) = 0 - MAX_DAILY_LOSS_USD
    /\ Losses(state, resp.machineId) < 3
    /\ KillFlag(resp.machineId)

\* C20: a failure of the fingerprint logging never changes or prevents the
\* decision a poll returns, on the global kill-switch path too: every poll is
\* answered with its decision (on the kill-switch path FLAT, stop 0,
\* KILL_SWITCH), whatever db.insert_fingerprint does.
C20_LoggingNeverBlocksPoll ==
    [][\A m \in MachineIds, s \in Symbols :
          Poll(m, s)
          => /\ resp'.op = "poll"
             /\ (config.KILL_SWITCH \/ state.kill_switch)
                    => (resp'.signal = "FLAT" /\ resp'.reason = "KILL_SWITCH")]_vars

\* C21: GET /status is read-only: it leaves mode, kill flags, positions, risk
\* counters and the stored day unchanged, and does not apply a pending day
\* rollover.
C21_StatusReadOnly ==
    [][Status =>
          /\ state'.mode = state.mode
          /\ state'.kill_switch = state.kill_switch
          /\ state'.kill_switch_triggered_by_machine = state.kill_switch_triggered_by_machine
          /\ state'.positions = state.positions
          /\ state'.daily_realized_pnl_by_machine = state.daily_realized_pnl_by_machine
          /\ state'.consecutive_losses_by_machine = state.consecutive_losses_by_machine
          /\ state'.current_day_utc = state.current_day_utc]_vars

\* the status was read after midnight with yesterday's counters and kill flag
\* still stored
C21_Witness ==
    /\ resp.op = "status"
    /\ NewDay
    /\ Losses(state, "m1") >= 3
    /\ KillFlag("m1")

\* the diagnostic keys of a decision's metadata
DiagnosticKeys == {"pamm", "pnl_pts", "pnl_usd_est"}

\* C22: every decision returned by Decide, on every branch, carries metadata
\* containing the PAMM score, the profit in points and the estimated dollar
\* P&L.
C22_DecisionCarriesDiagnostics ==
    IsPoll => DiagnosticKeys \subseteq DOMAIN resp.meta

\* the step is a Decide for (m, s) that reached position management
ManageStep(m, s) ==
    /\ Poll(m, s)
    /\ resp'.op = "poll"
    /\ "entry_price" \in DOMAIN resp'.meta

\* the conditions of the position-management rules for position pos on
\* frames fr at time t, each stated on its own
RulePrice(fr) == fr["df5"].row.close
RuleDir(pos) == IF pos.side = "long" THEN 1 ELSE 0 - 1
RulePnlPts(pos, fr) ==
    IF pos.entry_price <= 0 THEN 0 ELSE (RulePrice(fr) - pos.entry_price) * RuleDir(pos)
RulePnlUsd(pos, fr) ==
    RulePnlPts(pos, fr) * POINT_VALUE_USD * (IF pos.qty = 0 THEN 1 ELSE pos.qty)
RuleBars(pos, t) ==
    IF pos.entry_time_utc = NoTime THEN 0 ELSE (t - pos.entry_time_utc) \div 300
CatastrophicRule(pos, fr) == RulePnlUsd(pos, fr) <= 0 - 500
StopHitRule(pos, fr) ==
    /\ pos.stop_price > 0
    /\ \/ RuleDir(pos) = 1 /\ RulePrice(fr) <= pos.stop_price
       \/ RuleDir(pos) = 0 - 1 /\ RulePrice(fr) >= pos.stop_price
EarlyWeakRule(pos, fr, t) ==
    RulePnlPts(pos, fr) < Pts(150) /\ RuleBars(pos, t) >= 4 /\ compute_pamm_now(fr) < 900
EarlyFailRule(pos, fr) ==
    RulePnlPts(pos, fr) < Pts(150) /\ compute_pamm_now(fr) < 700
ReversalRule(pos, fr) ==
    /\ _current_dir_from_frames(fr) # RuleDir(pos)
    /\ compute_pamm_now(fr) >= REVERSAL_PAMM_THRESHOLD
TrailRule(pos, fr) ==
    LET trail == _calc_trailing_stop(pos, RulePrice(fr))
    IN  trail.update /\ trail.new_stop # pos.stop_price

\* the reason of the first applicable rule in the fixed order
FirstRuleReason(pos, fr, t) ==
    IF CatastrophicRule(pos, fr) THEN "KILL_SWITCH_SINGLE_LOSS"
    ELSE IF StopHitRule(pos, fr) THEN "STOP_HIT_RENDER"
    ELSE IF EarlyWeakRule(pos, fr, t) THEN "EARLY_EXIT_PAMM_WEAK"
    ELSE IF EarlyFailRule(pos, fr) THEN "EARLY_EXIT_PAMM_FAIL"
    ELSE IF ReversalRule(pos, fr) THEN "REVERSAL_CLOSE"
    ELSE IF TrailRule(pos, fr) THEN _calc_trailing_stop(pos, RulePrice(fr)).reason
    ELSE "HOLD"

\* the stored position after the rule with reason r acted on pos at time t
RuleEffect(pos, fr, t, r) ==
    IF r = "KILL_SWITCH_SINGLE_LOSS" \/ r \in CloseReasons
    THEN [pos EXCEPT !.open = FALSE]
    ELSE IF r = "HOLD" THEN pos
    ELSE [pos EXCEPT !.stop_price = _calc_trailing_stop(pos, RulePrice(fr)).new_stop,
                     !.last_stop_update_utc = t]

\* C23: for an open position one Decide cycle has the outcome of the first
\* applicable rule in the order catastrophic loss, stop-hit, PAMM early-exit,
\* reversal, trailing-stop update, hold: the reason is that rule's, the stored
\* position changes as that rule changes it, and the kill flag is set in the
\* cycle only by the catastrophic-loss rule.
C23_FirstApplicableRule ==
    [][\A m \in MachineIds, s \in Symbols :
          ManageStep(m, s)
          => LET pos == Positions[Key(m, s)]
                 r == FirstRuleReason(pos, frames[s], now)
             IN  /\ pos.open
                 /\ resp'.reason = r
                 /\ Positions'[Key(m, s)] = RuleEffect(pos, frames[s], now, r)
                 /\ (r = "KILL_SWITCH_SINGLE_LOSS") => KillFlag(m)'
                 /\ (r # "KILL_SWITCH_SINGLE_LOSS" /\ KillFlag(m)') => KillFlag(m)]_vars

\* a long whose price is both at or below its stop and at a loss of $5 or
\* more was closed by the catastrophic-loss rule, with the kill flag set
C23_Witness ==
    /\ IsPoll /\ resp.reason = "KILL_SWITCH_SINGLE_LOSS"
    /\ RespKey \in DOMAIN Positions
    /\ Positions[RespKey].side = "long" /\ ~Positions[RespKey].open
    /\ Positions[RespKey].stop_price > 0
    /\ RespClose <= Positions[RespKey].stop_price
    /\ resp.meta.pnl_usd_est <= 0 - 500
    /\ KillFlag(resp.machineId)

\* the gates of a poll, each stated on the store as the poll finds it (the
\* counters and flags after a pending day rollover)
RolledOver == _day_rollover_if_needed(state, now)
GlobalKill == config.KILL_SWITCH \/ state.kill_switch
MachineKill(m) ==
    \/ Get(RolledOver.kill_switch_triggered_by_machine, m, FALSE)
    \/ Get(RolledOver.consecutive_losses_by_machine, m, 0) >= 3
    \/ (config.ENABLE_AUTO_KILL_SWITCH
        /\ Get(RolledOver.daily_realized_pnl_by_machine, m, 0) <= 0 - MAX_DAILY_LOSS_USD)
CooldownActive(m, s) ==
    /\ config.COOLDOWN_SECONDS > 0
    /\ Key(m, s) \in DOMAIN Positions
    /\ Positions[Key(m, s)].last_sl_time_utc # NoTime
    /\ now - Positions[Key(m, s)].last_sl_time_utc < config.COOLDOWN_SECONDS
KillReasons == {"KILL_SWITCH", "KILL_SWITCH_3_LOSSES", "KILL_SWITCH_AUTO"}

\* the first gate that applies, in the order insufficient data, kill flags,
\* cooldown, then management of an open position or entry evaluation
GateOf(m, s) ==
    IF ~Sufficient(s) THEN "insufficient"
    ELSE IF GlobalKill \/ MachineKill(m) THEN "kill"
    ELSE IF CooldownActive(m, s) THEN "cooldown"
    ELSE IF IsOpen(Positions, Key(m, s)) THEN "manage"
    ELSE "entry"

\* the gate that produced answer r
GateAnswered(r) ==
    IF r.reason = "INSUFFICIENT_MULTI_TF_CANDLES" THEN "insufficient"
    ELSE IF r.reason \in KillReasons THEN "kill"
    ELSE IF r.reason = "COOLDOWN" THEN "cooldown"
    ELSE IF "entry_price" \in DOMAIN r.meta THEN "manage"
    ELSE "entry"

\* C24: a poll is answered by the first applicable gate in the order
\* insufficient data, kill flags (global and per-machine), cooldown, then
\* entry evaluation or position management; an answer of the kill gate is
\* FLAT and leaves every stored position as it was.
C24_GateOrder ==
    [][\A m \in MachineIds, s \in Symbols :
          (Poll(m, s) /\ resp'.op = "poll")
          => /\ GateAnswered(resp') = GateOf(m, s)
             /\ GateOf(m, s) = "kill"
                    => /\ resp'.signal = "FLAT"
                       /\ \A k \in DOMAIN Positions : Positions'[k] = Positions[k]]_vars

\* C25: every stop update that Decide applies to an open position changes the
\* stored stop by at least MIN_STOP_MOVE_PTS and at most
\* MAX_STOP_TIGHTEN_PER_POLL_PTS and only tightens it (up for a long, down for
\* a short); any other candidate leaves the stop unchanged.
C25_StopUpdateBounded ==
    [][\A m \in MachineIds, s \in Symbols :
          LET k == Key(m, s)
          IN  (/\ Poll(m, s) /\ IsOpen(Positions, k) /\ IsOpen(Positions', k)
               /\ Positions'[k].stop_price # Positions[k].stop_price)
              => LET old == Positions[k].stop_price
                     new == Positions'[k].stop_price
                 IN  /\ Abs(new - old) >= MIN_STOP_MOVE_PTS
                     /\ Abs(new - old) <= MAX_STOP_TIGHTEN_PER_POLL_PTS
                     /\ Positions[k].side = "long" => new > old
                     /\ Positions[k].side = "short" => new < old]_vars

EarlyExitReasons == {"EARLY_EXIT_PAMM_WEAK", "EARLY_EXIT_PAMM_FAIL"}

C27_ReversalClosesOnly ==
    [][\A m \in MachineIds, s \in Symbols :
          ManageStep(m, s)
          => LET pos == Positions[Key(m, s)]
                 fr == frames[s]
                 flipped == /\ EmaDir(fr["df5"].row) # RuleDir(pos)
                            /\ compute_pamm_now(fr) >= REVERSAL_PAMM_THRESHOLD
                 earlier == \/ CatastrophicRule(pos, fr) \/ StopHitRule(pos, fr)
                            \/ EarlyWeakRule(pos, fr, now) \/ EarlyFailRule(pos, fr)
             IN  /\ (flipped /\ ~earlier) => resp'.reason = "REVERSAL_CLOSE"
                 /\ resp'.reason = "REVERSAL_CLOSE"
                        => /\ flipped
                           /\ resp'.signal = "FLAT" /\ resp'.stop_price = 0
                           /\ "pending_entry" \notin DOMAIN resp'.meta
                           /\ Positions'[Key(m, s)] = [pos EXCEPT !.open = FALSE]]_vars

\* a long was closed on down-trend frames: the answer is FLAT and the stored
\* position is the closed long, not a pending short
C27_Witness ==
    /\ IsPoll /\ resp.reason = "REVERSAL_CLOSE" /\ resp.signal = "FLAT"
    /\ EmaDir(frames[resp.symbol]["df5"].row) = 0 - 1
    /\ Positions[RespKey].side = "long"
    /\ ~Positions[RespKey].open
    /\ Positions[RespKey].entry_price \in FillPrices

\* the filters in their order, each with its own verdict on frames fr for
\* Strategy object strat: <<fails, reason>>
ChainVerdicts(strat, fr) ==
    LET r5 == fr["df5"].row
        dir == EmaDir(r5)
        score == _score_pamm(r5, fr["df1"].row, fr["df15"].row, fr["df30"].row).score
    IN  << \* 1 data sufficiency
           [fails |-> \E k \in Timeframes : fr[k].len < 50,
            reason |-> "Insufficient data"],
           \* 2 regime: 5m against 30m, then the PAMM direction against both
           [fails |-> strat.use_regime_filter
                        /\ RegimeDir(r5) # RegimeDir(fr["df30"].row),
            reason |-> "Mixed regime (5m and 30m disagree)"],
           [fails |-> strat.use_regime_filter /\ dir # RegimeDir(r5),
            reason |-> "PAMM direction conflicts with regime"],
           \* 3 PAMM range
           [fails |-> score < strat.pamm_min \/ score > strat.pamm_max,
            reason |-> "PAMM outside range"],
           \* 4 ADX gate
           [fails |-> r5.ADX < adx_min, reason |-> "Weak trend"],
           \* 5 volume
           [fails |-> r5.relvol < rel_vol_min, reason |-> "Low volume"],
           [fails |-> r5.relvol > rel_vol_max, reason |-> "Volume spike"],
           \* 6 RSI
           [fails |-> dir = 1 /\ r5.rsi14 < rsi_long_min, reason |-> "RSI too low for long"],
           [fails |-> dir # 1 /\ r5.rsi14 > rsi_short_max,
            reason |-> "RSI too high for short"],
           \* 7 VWAP
           [fails |-> strat.use_vwap /\ dir = 1 /\ (r5.close < r5.vwap \/ r5.ema9 < r5.vwap),
            reason |-> "Price/EMA9 below VWAP (blocking long)"],
           [fails |-> strat.use_vwap /\ dir # 1 /\ (r5.close > r5.vwap \/ r5.ema9 > r5.vwap),
            reason |-> "Price/EMA9 above VWAP (blocking short)"],
           \* 8 multi-timeframe MACD
           [fails |-> strat.use_multi_tf_macd /\ dir = 1 /\ r5.macdh <= 0,
            reason |-> "5m MACD bearish (blocking long)"],
           [fails |-> strat.use_multi_tf_macd /\ dir # 1 /\ r5.macdh >= 0,
            reason |-> "5m MACD bullish (blocking short)"],
           [fails |-> strat.use_multi_tf_macd /\ dir = 1 /\ fr["df15"].row.macdh < 0 - 50,
            reason |-> "15m MACD strongly bearish (blocking long)"],
           [fails |-> strat.use_multi_tf_macd /\ dir # 1 /\ fr["df15"].row.macdh > 50,
            reason |-> "15m MACD strongly bullish (blocking short)"],
           \* 9 candle pattern
           [fails |-> strat.use_candle_patterns /\ dir = 1
                        /\ fr["df5"].pattern \notin BullishPatterns,
            reason |-> "No bullish pattern"],
           [fails |-> strat.use_candle_patterns /\ dir # 1
                        /\ fr["df5"].pattern \notin BearishPatterns,
            reason |-> "No bearish pattern"] >>

Failing(v) == {i \in DOMAIN v : v[i].fails}
FirstFailing(v) == CHOOSE i \in Failing(v) : \A j \in Failing(v) : i <= j

\* C28: the filter chain is fail-fast in the order data sufficiency, regime,
\* PAMM range, ADX gate, volume, RSI, VWAP, multi-timeframe MACD, candle
\* pattern: the flat signal carries the reason of the earliest failing filter,
\* and a buy or sell signal is produced exactly when no enabled filter fails.
C28_FirstFailingFilter ==
    IsDecide
    => LET v == ChainVerdicts(resp.strat, frames[resp.symbol])
       IN  IF Failing(v) = {}
           THEN resp.sig.side = IF EmaDir(frames[resp.symbol]["df5"].row) = 1
                                THEN "buy" ELSE "sell"
           ELSE resp.sig = [side |-> "flat", reason |-> v[FirstFailing(v)].reason]

\* ADX, volume, RSI, VWAP, MACD and candle pattern all fail on frames with a
\* PAMM score inside the range: the reason is the ADX gate's
C28_Witness ==
    /\ IsDecide /\ resp.sig.reason = "Weak trend"
    /\ LET v == ChainVerdicts(resp.strat, frames[resp.symbol])
       IN  Cardinality({v[i].reason : i \in Failing(v)}) >= 6

\* the flat reasons of the ADX, volume and RSI gates
GateReasons ==
    {"Weak trend", "Low volume", "Volume spike", "RSI too low for long",
     "RSI too high for short"}

\* C29: the ADX, volume and RSI gates use the configured thresholds ADX_MIN,
\* REL_VOL_MIN, REL_VOL_MAX, RSI_LONG_MIN and RSI_SHORT_MAX, which by default
\* are permissive: under the default configuration no poll is answered FLAT
\* by one of these three gates.
C29_DefaultGatesPermissive ==
    IsPoll => resp.reason \notin GateReasons

\* the direction of an entry with side "buy" / "sell" or signal LONG / SHORT
EntryDir(side) == IF side \in {"buy", "LONG"} THEN 1 ELSE 0 - 1

\* C30: an entry's direction agrees with the 5m EMA relationship of the frames
\* it was computed from: the filter chain answers buy only when 5m EMA9 >=
\* EMA21 and sell only when 5m EMA9 < EMA21, with the regime filter enabled
\* only when that direction is also the regime direction of the 5m and 30m
\* frames, and Decide on the same frames registers a LONG entry for buy and a
\* SHORT entry for sell.
C30_EntryFollowsEmaDirection ==
    /\ (IsDecide /\ resp.sig.side # "flat")
        => LET fr == frames[resp.symbol]
           IN  /\ EntryDir(resp.sig.side) = EmaDir(fr["df5"].row)
               /\ resp.strat.use_regime_filter
                    => /\ RegimeDir(fr["df5"].row) = EntryDir(resp.sig.side)
                       /\ RegimeDir(fr["df30"].row) = EntryDir(resp.sig.side)
    /\ \A m \in MachineIds, s \in Symbols :
          LET rd == decide_with_runtime(state, m, s, frames[s], now, config).rd
          IN  "pending_entry" \in DOMAIN rd.meta
              => /\ rd.signal \in {"LONG", "SHORT"}
                 /\ EntryDir(rd.signal) = EmaDir(frames[s]["df5"].row)

\* a sell signal with the regime filter enabled on frames whose 5m EMA9 is
\* below EMA21 and EMA50 and whose 30m EMA9 is below EMA50; Decide on the
\* frames registers a SHORT entry
C30_Witness ==
    /\ IsDecide /\ resp.sig.side = "sell" /\ resp.strat.use_regime_filter
    /\ EmaDir(frames[resp.symbol]["df5"].row) = 0 - 1
    /\ RegimeDir(frames[resp.symbol]["df30"].row) = 0 - 1
    /\ decide_with_runtime(state, "m1", resp.symbol, frames[resp.symbol], now, config).rd.signal
          = "SHORT"

\* C31: when a position closes (stop-hit, early exit, reversal, kill switch or
\* closing fill) its entry stays in the store with side, entry_price,
\* stop_price, initial_stop, qty and entry time reset to their defaults.
C31_CloseResetsPosition ==
    [][\A k \in DOMAIN Positions :
          (Positions[k].open /\ k \in DOMAIN Positions' /\ ~Positions'[k].open)
          => /\ Positions'[k].side = PositionState.side
             /\ Positions'[k].entry_price = PositionState.entry_price
             /\ Positions'[k].stop_price = PositionState.stop_price
             /\ Positions'[k].initial_stop = PositionState.initial_stop
             /\ Positions'[k].qty = PositionState.qty
             /\ Positions'[k].entry_time_utc = PositionState.entry_time_utc]_vars

\* the reasons with which Decide reports a forced close
ForceCloseReasons == CloseReasons \cup {"KILL_SWITCH_SINGLE_LOSS"}

\* C32: the catastrophic-loss, stop-hit, early-exit and reversal rules run
\* only for a position whose fill is confirmed: a Decide on a key whose
\* position is not open (flat, closed or a pending entry) reports no forced
\* close, returns no position-management metadata and does not set the kill
\* flag.
C32_PendingEntryNotManaged ==
    [][\A m \in MachineIds, s \in Symbols :
          (Poll(m, s) /\ resp'.op = "poll" /\ ~IsOpen(Positions, Key(m, s)))
          => /\ resp'.reason \notin ForceCloseReasons
             /\ "pnl_usd_est" \notin DOMAIN resp'.meta
             /\ KillFlag(m)' => KillFlag(m)]_vars

\* a pending long suggested at 1160 with stop 1110 was polled at a price of
\* 1000, below its stop and 160 points under its suggested entry: the answer
\* is the entry evaluation's and the kill flag is not set
C32_Witness ==
    /\ IsPoll /\ resp.reason = "RSI too low for long"
    /\ RespKey \in DOMAIN Positions
    /\ ~Positions[RespKey].open
    /\ Positions[RespKey].side = "long"
    /\ Positions[RespKey].entry_price = Pts(1160)
    /\ Positions[RespKey].stop_price = Pts(1110)
    /\ RespClose = Pts(1000)
    /\ ~KillFlag(resp.machineId)

\* the stored position of the pair (m, s), PositionState() if none is stored
PositionOf(st, m, s) == Get(st.positions, Key(m, s), PositionState)

\* the step is a Decide or an ApplyFill for the pair (m, s)
StepFor(m, s) ==
    \/ Poll(m, s)
    \/ \E fs \in FillSides, p \in StoreFillPrices : Fills(m, s, fs, 1, p)

\* C33: state is partitioned per (machine, symbol): a Decide or ApplyFill for
\* one pair never changes the stored position of a different pair, whatever
\* the machine identifiers and symbols.
C33_PairsArePartitioned ==
    [][\A m \in KeyMachineIds, s \in KeySymbols, m2 \in KeyMachineIds, s2 \in KeySymbols :
          (StepFor(m, s) /\ <<m, s>> # <<m2, s2>>)
          => PositionOf(state', m2, s2) = PositionOf(state, m2, s2)]_vars

\* C34: every poll that is not short-circuited by the global kill switch
\* persists exactly one audit fingerprint of its decision (when the database
\* accepts the row).
C34_PollPersistsOneFingerprint ==
    [][\A m \in MachineIds, s \in Symbols :
          (Poll(m, s) /\ ~(config.KILL_SWITCH \/ state.kill_switch))
          => PollFingerprintRows("ok") = 1]_vars

\* the reasons of a FLAT answered for a kill of the machine
MachineKillReasons == {"KILL_SWITCH_3_LOSSES", "KILL_SWITCH_AUTO"}

\* C35: with ENABLE_AUTO_KILL_SWITCH off, no Decide sets the machine's
\* kill-triggered flag and no decision is FLAT for a per-machine kill reason.
C35_AutoKillOffNeverKills ==
    [][\A m \in MachineIds, s \in Symbols :
          (DecideStep(m, s) /\ ~config.ENABLE_AUTO_KILL_SWITCH)
          => /\ KillFlag(m)' => KillFlag(m)
             /\ resp'.reason \notin MachineKillReasons]_vars

\* the side of the fill that closes a position of side ps
ClosingFillSide(ps) == IF ps = "long" THEN "SELL" ELSE "BUY"

\* C36: after Decide force-closes an open position (stop hit, early exit,
\* reversal or catastrophic loss) and the terminal then reports the closing
\* fill, of the side opposite to the closed position, the position of that key
\* is flat: the closing fill opens no position on the opposite side.
C36_ClosingFillLeavesFlat ==
    [][\A m \in MachineIds, s \in Symbols, q \in FillQtys, p \in FillPrices :
          (/\ IsPoll
           /\ RespKey = Key(m, s)
           /\ resp.reason \in ForceCloseReasons
           /\ Key(m, s) \in DOMAIN Positions
           /\ ~Positions[Key(m, s)].open
           /\ Fills(m, s, ClosingFillSide(Positions[Key(m, s)].side), q, p))
          => ~IsOpen(Positions', Key(m, s))]_vars

\* C37: at the moment ApplyFill opens a position, its stored stop_price is
\* positive, lies on the loss-limiting side of the fill's entry_price (below
\* it for a long, above it for a short) and is exactly 50 points away from
\* it, for every fill side and price and every earlier state of that key.
C37_OpenedWithFiftyPointStop ==
    [][\A m \in MachineIds, s \in Symbols, fs \in FillSides, q \in FillQtys, p \in FillPrices :
          (/\ Fills(m, s, fs, q, p)
           /\ ~IsOpen(Positions, Key(m, s))
           /\ IsOpen(Positions', Key(m, s)))
          => LET pos == Positions'[Key(m, s)]
             IN  /\ pos.entry_price = p
                 /\ pos.stop_price > 0
                 /\ pos.stop_price = InitialStop(p, IF pos.side = "long" THEN 1 ELSE 0 - 1)]_vars

\* C38: after any Decide that returns FLAT for a (machine, symbol) key, the
\* stored position of that key is not open.
C38_FlatMeansNotOpen ==
    [][\A m \in MachineIds, s \in Symbols :
          (DecideStep(m, s) /\ resp'.op = "poll" /\ resp'.signal = "FLAT")
          => ~IsOpen(Positions', Key(m, s))]_vars

\* the signal that names a position side
SideSignal(side) == IF side = "long" THEN "LONG" ELSE "SHORT"

\* C39: every LONG or SHORT decision returned for an open position (trailing
\* update or HOLD) has a signal equal to the stored position side and a stop
\* price greater than 0.
C39_OpenDecisionSideAndStop ==
    [][\A m \in MachineIds, s \in Symbols :
          (/\ DecideStep(m, s)
           /\ IsOpen(Positions, Key(m, s))
           /\ resp'.op = "poll"
           /\ resp'.signal \in {"LONG", "SHORT"})
          => /\ resp'.signal = SideSignal(Positions[Key(m, s)].side)
             /\ resp'.stop_price > 0]_vars

====
